---- MODULE Spec2Model ----
(***************************************************************************)
(* Model of examples/rdma_test/simple_read.c: two hosts each run main();   *)
(* one is normally started as the data provider (-s), the other as the     *)
(* data reader (-c).  Every blocking call of the program is one step, and  *)
(* every external call whose result the C code can observe may fail.       *)
(***************************************************************************)
EXTENDS Integers, Sequences, FiniteSets, TLC

(* ---------------------------------------------------------------------- *)
(* Bounds of the model                                                     *)
(* ---------------------------------------------------------------------- *)
MaxWords == 2        \* largest payload given with -z, in 32-bit words
MaxFill == 1         \* words an unwritten or wrongly read buffer may hold: 0..MaxFill
VerifyWords == 11    \* largest buffer verified with every pattern of mismatches, in words
MaxOpts == 3         \* most options on a command line of a register tool

(* ---------------------------------------------------------------------- *)
(* Program constants                                                       *)
(* ---------------------------------------------------------------------- *)
DEFAULT_PAYLOAD_SIZE == 1024
DEFAULT_QP_DEPTH == 64
DEFAULT_QP_ID == 2
PATTERN_MOD == 256
PSN_BASE == 2748     \* 0xabc
ADDR_BYTES == 8      \* sizeof(uint64_t)
MAX_PRINTED == 10
HEX32 == 8           \* hexadecimal digits of a uint32_t
HEX64 == 16          \* hexadecimal digits of a uint64_t
iterations == 100    \* reads of the timing test
RN_SCR_MAP_SIZE == 4194304   \* size of the mapped window, 0x400000

Procs == {"h1", "h2"}
Peer(p) == CHOOSE q \in Procs : q # p

Min(a, b) == IF a < b THEN a ELSE b

(* ---------------------------------------------------------------------- *)
(* Command line                                                            *)
(* ---------------------------------------------------------------------- *)
\* one option of the command line: letter, numeric argument, string argument
Opt(o, n, s) == [o |-> o, n |-> n, s |-> s]

\* payload sizes given with -z: 0, the multiples of 4 and the sizes between,
\* and one word more than the period of the test pattern
PayloadArgs ==
    {4 * w : w \in 0..MaxWords} \cup {4 * w + 2 : w \in 0..(MaxWords - 1)}
    \cup {4 * (PATTERN_MOD + 1)}

\* the options in the order of the usage text; "x" is an unknown option
Canon == <<"r", "i", "s", "c", "z", "l", "x", "h">>

RECURSIVE SubSeqs(_)
SubSeqs(s) ==
    IF s = <<>> THEN { <<>> }
    ELSE LET rest == SubSeqs(Tail(s))
         IN rest \cup { <<Head(s)>> \o t : t \in rest }

RECURSIVE Reverse(_)
Reverse(s) == IF s = <<>> THEN <<>> ELSE Append(Reverse(Tail(s)), Head(s))

Letters == SubSeqs(Canon) \cup { Reverse(s) : s \in SubSeqs(Canon) }

\* the argument vectors with the given letters, for all -z and -l arguments
RECURSIVE Fill(_)
Fill(ls) ==
    IF ls = <<>> THEN { <<>> }
    ELSE LET rest == Fill(Tail(ls))
             heads == CASE Head(ls) = "z" -> { Opt("z", n, "") : n \in PayloadArgs }
                        [] Head(ls) = "l" -> { Opt("l", 0, s) : s \in {"host_mem", "dev_mem", "bad"} }
                        [] OTHER -> { Opt(Head(ls), 0, "") }
         IN { <<h>> \o t : h \in heads, t \in rest }

ArgvSet == UNION { Fill(ls) : ls \in Letters }

\* the second host is always started with a complete command line
PeerArgvSet ==
    { << Opt("r", 0, ""), Opt("i", 0, ""), Opt(role, 0, ""),
         Opt("z", 4 * MaxWords, ""), Opt("l", 0, loc) >> :
      role \in {"s", "c"}, loc \in {"host_mem", "dev_mem"} }

CommandLines(p) == IF p = "h1" THEN ArgvSet ELSE PeerArgvSet

\* what the command line asks for: the role and help letters it contains
OptLetters(argv) == { argv[i].o : i \in 1..Len(argv) } \cap {"s", "c", "h"}

init_config ==
    [ src_ip_str |-> FALSE, dst_ip_str |-> FALSE,
      payload_size |-> DEFAULT_PAYLOAD_SIZE,
      qp_id |-> DEFAULT_QP_ID, dst_qp_id |-> DEFAULT_QP_ID,
      qp_location |-> "host_mem",
      is_server |-> 0, is_client |-> 0 ]

\* the getopt_long loop: options are taken left to right, help, an unknown
\* option and a bad -l argument return at once
RECURSIVE getopt_loop(_, _)
getopt_loop(argv, c) ==
    IF argv = <<>> THEN [rc |-> 0, cfg |-> c]
    ELSE LET t == Head(argv)
             rest == Tail(argv)
         IN CASE t.o = "r" -> getopt_loop(rest, [c EXCEPT !.src_ip_str = TRUE])
              [] t.o = "i" -> getopt_loop(rest, [c EXCEPT !.dst_ip_str = TRUE])
              [] t.o = "z" -> getopt_loop(rest, [c EXCEPT !.payload_size = t.n])
              [] t.o = "l" -> IF t.s \in {"host_mem", "dev_mem"}
                              THEN getopt_loop(rest, [c EXCEPT !.qp_location = t.s])
                              ELSE [rc |-> -1, cfg |-> c]
              [] t.o = "s" -> getopt_loop(rest, [c EXCEPT !.is_server = 1])
              [] t.o = "c" -> getopt_loop(rest, [c EXCEPT !.is_client = 1])
              [] t.o = "h" -> [rc |-> 1, cfg |-> c]
              [] OTHER -> [rc |-> -1, cfg |-> c]

\* parse_arguments without the test for both roles
parse_arguments_both(argv, c) ==
    LET r == getopt_loop(argv, c)
    IN IF r.rc # 0 THEN r
       ELSE IF ~r.cfg.src_ip_str \/ ~r.cfg.dst_ip_str THEN [r EXCEPT !.rc = -1]
       ELSE IF r.cfg.is_server = 0 /\ r.cfg.is_client = 0 THEN [r EXCEPT !.rc = -1]
       ELSE [r EXCEPT !.rc = 0]

\* lines 205-221: the tests after the option loop
parse_arguments(argv, c) ==
    LET r == getopt_loop(argv, c)
    IN IF r.rc # 0 THEN r
       ELSE IF ~r.cfg.src_ip_str \/ ~r.cfg.dst_ip_str THEN [r EXCEPT !.rc = -1]
       ELSE IF r.cfg.is_server = 0 /\ r.cfg.is_client = 0 THEN [r EXCEPT !.rc = -1]
       ELSE IF r.cfg.is_server = 1 /\ r.cfg.is_client = 1 THEN [r EXCEPT !.rc = -1]
       ELSE [r EXCEPT !.rc = 0]

(* ---------------------------------------------------------------------- *)
(* Addresses, buffers and the rendezvous encoding                          *)
(* ---------------------------------------------------------------------- *)
\* a 64-bit value is its ADDR_BYTES bytes, most significant first
NULL_ADDR == <<0, 0, 0, 0, 0, 0, 0, 0>>
\* what allocate_rdma_buffer returns: the host-virtual pointer of a host_mem
\* buffer and the device-bus address of any buffer
HOST_PTR == <<0, 0, 127, 255, 16, 32, 48, 0>>
DMA_ADDR == <<0, 0, 0, 1, 2, 3, 64, 0>>

NoBuf == [valid |-> FALSE, buffer |-> NULL_ADDR, dma_addr |-> NULL_ADDR, size |-> 0]
NewBuf(size, loc) ==
    [valid |-> TRUE,
     buffer |-> IF loc = "host_mem" THEN HOST_PTR ELSE NULL_ADDR,
     dma_addr |-> DMA_ADDR,
     size |-> size]

\* byte swap of a 64-bit value on a little-endian host
htonll(v) == Reverse(v)
ntohll(v) == Reverse(v)
\* the bytes of a 64-bit object as send() takes them from memory and as
\* recv() stores them, lowest address first, on a little-endian host
ObjectBytes(v) == Reverse(v)
ObjectValue(bytes) == Reverse(bytes)

\* test_data without the reduction modulo 256
test_data_index(n) == [i \in 1..n |-> i - 1]
\* the test pattern run_rdma_server writes, lines 415-417 and 429-431: word i
\* is i % 256 (C indices from 0)
test_data(n) == [i \in 1..n |-> (i - 1) % PATTERN_MOD]
\* golden_data with the index taken from 1
golden_data_shifted(n) == [i \in 1..n |-> i % PATTERN_MOD]
\* the pattern run_rdma_client regenerates, lines 648-651
golden_data(n) == [i \in 1..n |-> (i - 1) % PATTERN_MOD]
\* contents of memory the program has not written
Fills(n) == { [i \in 1..n |-> w] : w \in 0..MaxFill }

Words(payload) == payload \div 4

\* a verify loop that counts every word it looks at
CountErrors_every(recv, gold) == Len(gold)
\* number of mismatching words, as the verify loop counts them
CountErrors(recv, gold) ==
    Cardinality({ i \in 1..Len(gold) : recv[i] # gold[i] })

\* the line the verify loop prints for word i (C index i - 1), lines 659-660
MismatchLine(recv, gold, i) ==
    [offset |-> i - 1, expected |-> gold[i], got |-> recv[i]]

\* the words for which the verify loop prints a line: the mismatching words
\* met while errors, the count of the mismatches before them, is below an
\* eleven-line limit
PrintedWords_eleven(recv, gold) ==
    { i \in 1..Len(gold) :
        /\ recv[i] # gold[i]
        /\ CountErrors(SubSeq(recv, 1, i - 1), SubSeq(gold, 1, i - 1)) < MAX_PRINTED + 1 }
\* the words for which the verify loop prints a line, lines 656-663: the
\* mismatching words met while errors, the count of the mismatches before
\* them, is below 10
PrintedWords(recv, gold) ==
    { i \in 1..Len(gold) :
        /\ recv[i] # gold[i]
        /\ CountErrors(SubSeq(recv, 1, i - 1), SubSeq(gold, 1, i - 1)) < MAX_PRINTED }

\* the lines in the order of printing: the loop runs by ascending index
PrintedLines(recv, gold) ==
    LET W == PrintedWords(recv, gold)
    IN [k \in 1..Cardinality(W) |->
           MismatchLine(recv, gold,
                        CHOOSE i \in W : Cardinality({ j \in W : j < i }) = k - 1)]

Ev(c, ok) == [call |-> c, ok |-> ok]

\* the access key of rdma_test.h, used at lines 409, 496, 594 and 608
R_KEY == "R_KEY"

NoQp == [valid |-> FALSE, pd |-> "unset", local |-> NULL_ADDR, registered |-> FALSE,
         depth |-> 0, r_key |-> "none", last_rq_psn |-> -1, sq_psn |-> -1]
NoWqe == [valid |-> FALSE, laddr |-> NULL_ADDR, length |-> 0, opcode |-> "none",
          remote_offset |-> NULL_ADDR, r_key |-> "none"]

(* ---------------------------------------------------------------------- *)
(* register_test.c and register_test_arm.c: arguments and values           *)
(* ---------------------------------------------------------------------- *)
X86 == "register_test"
ARM == "register_test_arm"
Tools == {X86, ARM}

\* a uint32_t as HEX32 hexadecimal digits, a uint64_t as HEX64, most
\* significant first
ZeroWord == [i \in 1..HEX32 |-> 0]
Zero64 == [i \in 1..HEX64 |-> 0]
ULLONG_MAX == [i \in 1..HEX64 |-> 15]
uint32_t(v) == SubSeq(v, HEX64 - HEX32 + 1, HEX64)

\* the number a uint32_t below 2^31 stands for
RECURSIVE WordValue(_)
WordValue(a) == IF a = <<>> THEN 0
                ELSE 16 * WordValue(SubSeq(a, 1, Len(a) - 1)) + a[Len(a)]

\* the four bytes at offset a lie inside the window mapped by mmap
InWindow(a) == a[1] < 8 /\ WordValue(a) + 4 <= RN_SCR_MAP_SIZE
Aligned(a) == a[HEX32] % 4 = 0

\* the characters of the strings given with -a and -v
LowerHex == <<"0", "1", "2", "3", "4", "5", "6", "7", "8", "9",
              "a", "b", "c", "d", "e", "f">>
UpperHex == <<"0", "1", "2", "3", "4", "5", "6", "7", "8", "9",
              "A", "B", "C", "D", "E", "F">>
IsHexDigit(c) == \E i \in 1..16 : c = LowerHex[i] \/ c = UpperHex[i]
HexDigitValue(c) == (CHOOSE i \in 1..16 : c = LowerHex[i] \/ c = UpperHex[i]) - 1

\* the string starts with 0x or 0X
HasPrefix(s) == Len(s) >= 2 /\ s[1] = "0" /\ s[2] \in {"x", "X"}

\* number of leading hexadecimal digits of s
RECURSIVE DigitRun(_)
DigitRun(s) == IF s # <<>> /\ IsHexDigit(Head(s)) THEN 1 + DigitRun(Tail(s)) ELSE 0

\* digits without leading zeros
RECURSIVE Significant(_)
Significant(ds) == IF ds # <<>> /\ Head(ds) = 0 THEN Significant(Tail(ds)) ELSE ds

\* strtoull(s, &endptr, 16) on a string without blanks or sign: an optional
\* 0x before a digit, then the longest run of digits; the value saturates at
\* ULLONG_MAX; rest is the string at endptr
strtoull(s) ==
    LET b == IF HasPrefix(s) /\ Len(s) >= 3 /\ IsHexDigit(s[3])
             THEN SubSeq(s, 3, Len(s)) ELSE s
        n == DigitRun(b)
        ds == Significant([i \in 1..n |-> HexDigitValue(b[i])])
    IN [value |-> IF Len(ds) > HEX64 THEN ULLONG_MAX
                  ELSE [i \in 1..HEX64 |->
                          IF i <= HEX64 - Len(ds) THEN 0 ELSE ds[i - (HEX64 - Len(ds))]],
        rest |-> SubSeq(b, n + 1, Len(b))]

\* parse_hex_value: the value returned, and whether "Invalid hex value" is
\* printed; the return value is 0 in that case
parse_hex_value(str) ==
    LET r == strtoull(IF HasPrefix(str) THEN SubSeq(str, 3, Len(str)) ELSE str)
    IN IF r.rest # <<>> THEN [value |-> Zero64, error |-> TRUE]
                        ELSE [value |-> r.value, error |-> FALSE]

\* a string of hexadecimal digits, with or without 0x
ValidHex(s) ==
    LET b == IF HasPrefix(s) THEN SubSeq(s, 3, Len(s)) ELSE s
    IN b # <<>> /\ \A i \in 1..Len(b) : IsHexDigit(b[i])

\* registers named in the source
RN_SCR_VERSION == <<0, 0, 1, 0, 2, 0, 0, 0>>
RN_SCR_FATAL_ERR == <<0, 0, 1, 0, 2, 0, 0, 4>>
RN_SCR_TRMHR_REG == <<0, 0, 1, 0, 2, 1, 0, 0>>
RN_SCR_TRMLR_REG == <<0, 0, 1, 0, 2, 1, 0, 4>>
RN_SCR_TEMPLATE_REG == <<0, 0, 1, 0, 2, 2, 0, 0>>
RN_CLR_TEMPLATE == <<0, 0, 1, 0, 3, 2, 0, 0>>

\* test_values of run_comprehensive_tests and the value written to RN_CLR_TEMPLATE
test_values == << <<1, 2, 3, 4, 5, 6, 7, 8>>, <<13, 14, 10, 13, 11, 14, 14, 15>>,
                  <<12, 10, 15, 14, 11, 10, 11, 14>>, <<5, 5, 10, 10, 5, 5, 10, 10>>,
                  <<0, 0, 0, 0, 0, 0, 0, 0>>, <<15, 15, 15, 15, 15, 15, 15, 15>> >>
clr_test_value == <<8, 7, 6, 5, 4, 3, 2, 1>>

\* strings given with -a
AddressArgs ==
    { <<"0", "x", "1", "0", "2", "0", "0", "0">>,
      <<"1", "0", "2", "2", "0", "0">>,
      <<"0", "X", "1", "0", "2", "2", "0", "0">>,
      <<"0", "x", "3", "f", "f", "f", "f", "c">>,
      <<"0", "x", "3", "F", "F", "F", "F", "E">>,
      <<"0", "x", "4", "0", "0", "0", "0", "0">>,
      <<"f", "f", "f", "f", "f", "f", "f", "f">>,
      <<"1", "0", "0", "1", "0", "2", "0", "0", "0">>,
      [i \in 1..(HEX64 + 1) |-> "f"],
      <<"0", "x", "z", "z">>,
      <<"1", "0", "2", "g", "0", "0">>,
      <<"0", "x">>,
      <<>> }

\* strings given with -v
ValueArgs ==
    { <<"0", "x", "1", "2", "3", "4", "5", "6", "7", "8">>,
      <<"0">>,
      <<"1", "d", "e", "a", "d", "b", "e", "e", "f">>,
      <<"0", "x", "z", "z">> }

\* the options getopt_long returns; "?" is an option or a missing argument
\* that it rejects
NoArg == <<"(null)">>
ToolOptions ==
    { Opt("a", 0, s) : s \in AddressArgs } \cup { Opt("v", 0, s) : s \in ValueArgs }
    \cup { Opt(o, 0, NoArg) : o \in {"r", "w", "l", "t", "h", "?"} }

\* locals of main, lines 222-228; optind counts the options taken, stop tells
\* how the option loop was left
NoParsed == [operation |-> 0, address |-> ZeroWord, value |-> ZeroWord,
             address_set |-> 0, value_set |-> 0,
             address_arg |-> NoArg, value_arg |-> NoArg, optind |-> 0, stop |-> "none"]

\* one turn of the getopt_long loop of main, register_test.c 231-273,
\* register_test_arm.c 337-382
tool_option(t, o, a) ==
    CASE o.o = "a" -> [a EXCEPT !.address = uint32_t(parse_hex_value(o.s).value),
                                !.address_set = 1, !.address_arg = o.s]
      [] o.o = "v" -> [a EXCEPT !.value = uint32_t(parse_hex_value(o.s).value),
                                !.value_set = 1, !.value_arg = o.s]
      [] o.o = "r" -> [a EXCEPT !.operation = 1]
      [] o.o = "w" -> [a EXCEPT !.operation = 2]
      [] o.o = "t" /\ t = ARM -> [a EXCEPT !.operation = 3]
      [] o.o = "l" -> [a EXCEPT !.stop = "list"]
      [] o.o = "h" -> [a EXCEPT !.stop = "help"]
      [] OTHER -> [a EXCEPT !.stop = "usage"]

\* the argument checks of main, register_test.c 276-292, register_test_arm.c
\* 385-401
missing_operation(a) == a.operation = 0
missing_address(t, a) ==
    IF t = X86 THEN a.address_set = 0
               ELSE a.operation \in {1, 2} /\ a.address_set = 0
missing_value_unchecked(a) == FALSE
missing_value(a) == a.operation = 2 /\ a.value_set = 0

\* the device behind the window: kind "rw" returns what was stored, "ro" keeps
\* its own content
NoStores == [o \in {} |-> ZeroWord]
HwValue == <<0, 0, 0, 0, 0, 0, 0, 0>>
Windows == { [kind |-> k, stored |-> NoStores] : k \in {"rw", "ro"} }
LoadValue(w, off) ==
    IF w.kind = "rw" /\ off \in DOMAIN w.stored THEN w.stored[off] ELSE HwValue
StoreValue(w, off, val) ==
    [w EXCEPT !.stored = [o \in DOMAIN w.stored \cup {off} |->
                            IF o = off THEN val ELSE w.stored[o]]]

\* events on the mapped window
NoOff == <<>>
Load(off, val) == [ev |-> "load", off |-> off, val |-> val]
Store(off, val) == [ev |-> "store", off |-> off, val |-> val]
rmb == [ev |-> "rmb", off |-> NoOff, val |-> NoOff]
wmb == [ev |-> "wmb", off |-> NoOff, val |-> NoOff]
IsAccess(e) == e.ev \in {"load", "store"}

\* read32_data and write32_data of the control API
read32_data(off, val) == <<Load(off, val)>>
write32_data(off, val) == <<Store(off, val)>>

\* arm_read32_data, register_test_arm.c 65-81
arm_read32_data(off, val) == <<rmb, Load(off, val), rmb>>

\* arm_write32_data without the barrier after the store
arm_write32_data_unfenced(off, val, back) ==
    <<wmb, Store(off, val), Load(off, back), rmb>>

\* arm_write32_data, register_test_arm.c 83-101; back is the value of the
\* discarded read-back
arm_write32_data(off, val, back) ==
    <<wmb, Store(off, val), wmb, Load(off, back), rmb>>

ReadEvents(t, off, val) ==
    IF t = ARM THEN arm_read32_data(off, val) ELSE read32_data(off, val)
WriteEvents(t, off, val, back) ==
    IF t = ARM THEN arm_write32_data(off, val, back) ELSE write32_data(off, val)

\* the result a write returns when only a matching read-back is a success
write_result_strict(val, back) == IF val = back THEN 0 ELSE 1
\* return value of test_register_write, register_test.c 214
write_result(val, back) == 0

\* test_register_read: the events, the lines printed and the return value
test_register_read(t, w, off) ==
    LET v == LoadValue(w, off)
    IN [window |-> w,
        events |-> ReadEvents(t, off, v),
        report |-> <<[op |-> "read", address |-> off, value |-> v,
                      read_back |-> v, match |-> TRUE]>>,
        result |-> 0]

\* test_register_write: write, read back, compare
test_register_write(t, w, off, val) ==
    LET w2 == StoreValue(w, off, val)
        back == LoadValue(w2, off)
    IN [window |-> w2,
        events |-> WriteEvents(t, off, val, back) \o ReadEvents(t, off, back),
        report |-> <<[op |-> "write", address |-> off, value |-> val,
                      read_back |-> back, match |-> (val = back)]>>,
        result |-> write_result(val, back)]

\* run_comprehensive_tests, register_test_arm.c 273-320
status_registers == <<RN_SCR_VERSION, RN_SCR_FATAL_ERR, RN_SCR_TRMHR_REG, RN_SCR_TRMLR_REG>>
run_comprehensive_tests(t, w) ==
    LET reads == [i \in 1..Len(status_registers) |->
                    test_register_read(t, w, status_registers[i])]
        writes == [i \in 1..Len(test_values) |->
                    test_register_write(t, w, RN_SCR_TEMPLATE_REG, test_values[i])]
        clr == test_register_write(t, writes[Len(test_values)].window,
                                   RN_CLR_TEMPLATE, clr_test_value)
        one == ReadEvents(t, RN_SCR_VERSION, LoadValue(clr.window, RN_SCR_VERSION))
        timing == [i \in 1..(iterations * Len(one)) |-> one[((i - 1) % Len(one)) + 1]]
    IN [window |-> clr.window,
        events |-> reads[1].events \o reads[2].events \o reads[3].events
                   \o reads[4].events
                   \o writes[1].events \o writes[2].events \o writes[3].events
                   \o writes[4].events \o writes[5].events \o writes[6].events
                   \o clr.events \o timing,
        report |-> reads[1].report \o reads[2].report \o reads[3].report
                   \o reads[4].report
                   \o writes[1].report \o writes[2].report \o writes[3].report
                   \o writes[4].report \o writes[5].report \o writes[6].report
                   \o clr.report,
        result |-> 0]

\* the operation main performs, register_test.c 335-339, register_test_arm.c
\* 442-448
perform(t, w, a) ==
    CASE a.operation = 1 -> test_register_read(t, w, a.address)
      [] a.operation = 2 -> test_register_write(t, w, a.address, a.value)
      [] OTHER -> run_comprehensive_tests(t, w)

(* ---------------------------------------------------------------------- *)
(* State                                                                   *)
(* ---------------------------------------------------------------------- *)
VARIABLES
    pc,              \* position of each process in main and the role function
    cfg,             \* the global config of each process
    given,           \* role and help letters on the command line of each process
    parse_rc,        \* result of parse_arguments
    result,          \* result of the role function
    exit_code,       \* exit code of the process, -1 while it runs
    log,             \* external calls made so far, with their outcome
    rn_dev,          \* "null", "open" or "destroyed"
    setup_fd,        \* the device file setup_rdma_environment opens
    local_fpga_fd,   \* the role function's local_fpga_fd
    data_buffer,     \* data_buffer / recv_buffer of the role function
    mem,             \* contents of that buffer, 32-bit words
    pd,              \* pd of the role function: "unset", "ok", "null"
    registered,      \* data buffer registered with rdma_register_memory_region
    qp,              \* the queue pair
    wqe,             \* the work request
    server_sockfd,   \* listening socket: "none", "open", "bound", "listening", "closed"
    client_sockfd,   \* accepted or connecting socket: "none", "open", "connected", "closed"
    backlog,         \* connections completed towards a listening socket, not yet accepted
    rx,              \* bytes that arrived on the connected socket, not yet received
    sent,            \* number of bytes each process has put on the channel
    nrecv,           \* return value of recv, -2 before the call
    remote_offset,   \* the reader's remote_offset
    post_ret,        \* return value of rdma_post_send, 1 before the call
    post_msg,        \* code in the "post send failed" message, 0 if not printed
    rd,              \* the READ on the wire: "none", "outstanding", "complete"
    received_data,   \* the reader's copy of device memory (dev_mem)
    errors,          \* mismatch count, -1 before verification
    printed,         \* number of mismatch lines printed
    lines,           \* the mismatch lines printed, in the order of printing
    reported,        \* print_test_summary was called
    tool,            \* the register tool that runs: "none", register_test, register_test_arm
    tool_pc,         \* position of the tool in main
    parsed,          \* locals of the tool's main set by the option loop
    pcie_resource_fd, \* "none", "open", "failed", "closed"
    axil_base,       \* the mapping: "none", "mapped", "failed", "unmapped"
    window,          \* the registers behind the mapping
    trace,           \* loads, stores and barriers executed, in order
    report,          \* results printed by test_register_read / test_register_write
    tool_result,     \* result in the tool's main
    tool_exit        \* exit code of the tool, -1 while it has none

vars == <<pc, cfg, given, parse_rc, result, exit_code, log, rn_dev, setup_fd,
          local_fpga_fd, data_buffer, mem, pd, registered, qp, wqe,
          server_sockfd, client_sockfd, backlog, rx, sent, nrecv, remote_offset,
          post_ret, post_msg, rd, received_data, errors, printed, lines,
          reported, tool, tool_pc, parsed, pcie_resource_fd, axil_base, window,
          trace, report, tool_result, tool_exit>>

mainVars == <<cfg, given, parse_rc, rn_dev, setup_fd>>
bufVars == <<data_buffer, mem, pd, registered>>
qpVars == <<qp, wqe>>
sockVars == <<server_sockfd, client_sockfd, backlog, rx, sent, nrecv>>
readVars == <<remote_offset, post_ret, post_msg, rd, received_data, errors, printed,
              lines, reported>>
toolVars == <<tool, tool_pc, parsed, pcie_resource_fd, axil_base, window, trace,
              report, tool_result, tool_exit>>
sessionVars == <<pc, result, exit_code, log, local_fpga_fd, mainVars, bufVars, qpVars,
                 sockVars, readVars>>

\* no register tool runs
ToolIdle ==
    /\ tool = "none"
    /\ tool_pc = "idle"
    /\ parsed = NoParsed
    /\ pcie_resource_fd = "none"
    /\ axil_base = "none"
    /\ window = [kind |-> "rw", stored |-> NoStores]
    /\ trace = <<>>
    /\ report = <<>>
    /\ tool_result = 0
    /\ tool_exit = -1

\* the two hosts before main
SessionInit ==
    /\ pc = [p \in Procs |-> "main"]
    /\ cfg = [p \in Procs |-> init_config]
    /\ given = [p \in Procs |-> {}]
    /\ parse_rc = [p \in Procs |-> 0]
    /\ result = [p \in Procs |-> 0]
    /\ exit_code = [p \in Procs |-> -1]
    /\ log = [p \in Procs |-> <<>>]
    /\ rn_dev = [p \in Procs |-> "null"]
    /\ setup_fd = [p \in Procs |-> "none"]
    /\ local_fpga_fd = [p \in Procs |-> "uninit"]
    /\ data_buffer = [p \in Procs |-> NoBuf]
    /\ mem = [p \in Procs |-> <<>>]
    /\ pd = [p \in Procs |-> "unset"]
    /\ registered = [p \in Procs |-> FALSE]
    /\ qp = [p \in Procs |-> NoQp]
    /\ wqe = [p \in Procs |-> NoWqe]
    /\ server_sockfd = [p \in Procs |-> "none"]
    /\ client_sockfd = [p \in Procs |-> "none"]
    /\ backlog = [p \in Procs |-> {}]
    /\ rx = [p \in Procs |-> <<>>]
    /\ sent = [p \in Procs |-> 0]
    /\ nrecv = [p \in Procs |-> -2]
    /\ remote_offset = [p \in Procs |-> NULL_ADDR]
    /\ post_ret = [p \in Procs |-> 1]
    /\ post_msg = [p \in Procs |-> 0]
    /\ rd = [p \in Procs |-> "none"]
    /\ received_data = [p \in Procs |-> <<>>]
    /\ errors = [p \in Procs |-> -1]
    /\ printed = [p \in Procs |-> 0]
    /\ lines = [p \in Procs |-> <<>>]
    /\ reported = [p \in Procs |-> FALSE]

Init == SessionInit /\ ToolIdle

(* ---------------------------------------------------------------------- *)
(* main                                                                    *)
(* ---------------------------------------------------------------------- *)
\* return from main with the given code; the process is gone
Exit(p, code) ==
    /\ pc' = [pc EXCEPT ![p] = "exited"]
    /\ exit_code' = [exit_code EXCEPT ![p] = code]

\* cleanup_resources: destroy the device if it was created
cleanup_resources(dev) == IF dev # "null" THEN "destroyed" ELSE dev

\* the role function returns r to main
Return(p, r) ==
    /\ pc' = [pc EXCEPT ![p] = "main_cleanup"]
    /\ result' = [result EXCEPT ![p] = r]

\* main, lines 729-735: init_config, parse_arguments, early return
main_parse(p) ==
    /\ pc[p] = "main"
    /\ \E argv \in CommandLines(p) :
         LET r == parse_arguments(argv, init_config)
         IN /\ cfg' = [cfg EXCEPT ![p] = r.cfg]
            /\ given' = [given EXCEPT ![p] = OptLetters(argv)]
            /\ parse_rc' = [parse_rc EXCEPT ![p] = r.rc]
            /\ IF r.rc # 0
               THEN Exit(p, IF r.rc > 0 THEN 0 ELSE 1)
               ELSE /\ pc' = [pc EXCEPT ![p] = "main_setup"]
                    /\ UNCHANGED exit_code
    /\ UNCHANGED <<result, log, rn_dev, setup_fd, local_fpga_fd, toolVars>>
    /\ UNCHANGED <<bufVars, qpVars, sockVars, readVars>>

\* the calls of setup_rdma_environment whose failure it checks, in order
SetupCalls == <<"setup_socket", "create_rn_dev", "create_rdma_dev", "allocate_cidb",
                "allocate_sysbufs", "open_rdma_dev", "allocate_rdma_pd_setup",
                "open_setup">>
SetupCanFail == {1, 2, 3, 4, 5, 7, 8}

\* the calls setup makes when call k fails (k = 0: none fails)
SetupLog(k) ==
    LET n == IF k = 0 THEN Len(SetupCalls) ELSE k
    IN [i \in 1..n |-> Ev(SetupCalls[i], i # k)]

\* setup_rdma_environment, lines 276-375, and main's handling of its result,
\* lines 738-749
main_setup(p) ==
    /\ pc[p] = "main_setup"
    /\ \E k \in {0} \cup SetupCanFail :
         /\ log' = [log EXCEPT ![p] = @ \o SetupLog(k)]
         /\ setup_fd' = [setup_fd EXCEPT ![p] = IF k = 0 THEN "open" ELSE @]
         /\ IF k = 0
            THEN /\ rn_dev' = [rn_dev EXCEPT ![p] = "open"]
                 /\ pc' = [pc EXCEPT ![p] = IF cfg[p].is_server = 1
                                            THEN "server_resolve" ELSE "client_open"]
                 /\ UNCHANGED exit_code
            ELSE /\ rn_dev' = [rn_dev EXCEPT ![p] =
                                  cleanup_resources(IF k > 2 THEN "open" ELSE "null")]
                 /\ Exit(p, 1)
    /\ UNCHANGED <<cfg, given, parse_rc, result, local_fpga_fd, toolVars>>
    /\ UNCHANGED <<bufVars, qpVars, sockVars, readVars>>

\* main, lines 751-754: cleanup_resources and the exit code
main_cleanup(p) ==
    /\ pc[p] = "main_cleanup"
    /\ rn_dev' = [rn_dev EXCEPT ![p] = cleanup_resources(@)]
    /\ Exit(p, IF result[p] = 0 THEN 0 ELSE 1)
    /\ UNCHANGED <<cfg, given, parse_rc, result, log, setup_fd, local_fpga_fd, toolVars>>
    /\ UNCHANGED <<bufVars, qpVars, sockVars, readVars>>

(* ---------------------------------------------------------------------- *)
(* run_rdma_server                                                         *)
(* ---------------------------------------------------------------------- *)
Log(p, evs) == log' = [log EXCEPT ![p] = @ \o evs]
Goto(p, l) == pc' = [pc EXCEPT ![p] = l] /\ UNCHANGED result

\* what send() may return for the 8-byte message: an error, a short count, all
\* send_length for a 32-bit offset
send_length_word == ADDR_BYTES \div 2
\* sizeof(buffer_offset), line 481, and sizeof(remote_offset), line 569
send_length == ADDR_BYTES
recv_length == ADDR_BYTES
SendResults == {-1, send_length \div 2, send_length}
\* negative codes of rdma_post_send
PostErrors == {-1, -2}

\* lines 393-396: get_remote_mac_address
server_resolve(p) ==
    /\ pc[p] = "server_resolve"
    /\ \E ok \in BOOLEAN :
         /\ Log(p, <<Ev("get_remote_mac_address", ok)>>)
         /\ IF ok THEN Goto(p, "server_alloc") ELSE Return(p, -1)
    /\ UNCHANGED <<mainVars, toolVars, exit_code, local_fpga_fd>>
    /\ UNCHANGED <<bufVars, qpVars, sockVars, readVars>>

\* lines 398-409: allocate the data buffer, get the protection domain (its
\* result is not tested), register the buffer
server_alloc(p) ==
    /\ pc[p] = "server_alloc"
    /\ \/ /\ Log(p, <<Ev("allocate_rdma_buffer", FALSE)>>)
          /\ Return(p, -1)
          /\ UNCHANGED bufVars
       \/ \E pdok \in BOOLEAN, fill \in Fills(Words(cfg[p].payload_size)) :
            /\ Log(p, <<Ev("allocate_rdma_buffer", TRUE), Ev("allocate_rdma_pd", pdok),
                        Ev("rdma_register_memory_region", TRUE)>>)
            /\ data_buffer' = [data_buffer EXCEPT ![p] =
                                  NewBuf(cfg[p].payload_size, cfg[p].qp_location)]
            /\ mem' = [mem EXCEPT ![p] = fill]
            /\ pd' = [pd EXCEPT ![p] = IF pdok THEN "ok" ELSE "null"]
            /\ registered' = [registered EXCEPT ![p] = TRUE]
            /\ Goto(p, "server_seed")
    /\ UNCHANGED <<mainVars, toolVars, exit_code, local_fpga_fd>>
    /\ UNCHANGED <<qpVars, sockVars, readVars>>

\* lines 411-432: write the test pattern.  For dev_mem the pattern goes through
\* write_from_buffer on local_fpga_fd, which run_rdma_server never assigns: the
\* call fails, or succeeds on the device file, or succeeds on another file
server_seed(p) ==
    /\ pc[p] = "server_seed"
    /\ LET n == Words(cfg[p].payload_size)
       IN IF cfg[p].qp_location = "dev_mem"
          THEN \/ /\ Log(p, <<Ev("write_from_buffer", FALSE)>>)
                  /\ Return(p, -1)
                  /\ UNCHANGED mem
               \/ \E hit \in BOOLEAN :
                    /\ Log(p, IF hit THEN <<Ev("write_from_buffer", TRUE),
                                           Ev("store_pattern", TRUE)>>
                               ELSE <<Ev("write_from_buffer", TRUE)>>)
                    /\ mem' = [mem EXCEPT ![p] = IF hit THEN test_data(n) ELSE @]
                    /\ Goto(p, "server_listen")
          ELSE /\ mem' = [mem EXCEPT ![p] = test_data(n)]
               /\ Log(p, <<Ev("store_pattern", TRUE)>>)
               /\ Goto(p, "server_listen")
    /\ UNCHANGED <<mainVars, toolVars, exit_code, local_fpga_fd>>
    /\ UNCHANGED <<data_buffer, pd, registered, qpVars, sockVars, readVars>>

\* lines 439-467: socket, bind, listen; k is the call that fails (0: none)
ListenCalls == <<"socket", "bind", "listen">>
server_listen(p) ==
    /\ pc[p] = "server_listen"
    /\ \E k \in 0..Len(ListenCalls) :
         /\ Log(p, [i \in 1..(IF k = 0 THEN Len(ListenCalls) ELSE k) |->
                       Ev(ListenCalls[i], i # k)])
         /\ server_sockfd' = [server_sockfd EXCEPT ![p] =
                                 CASE k = 0 -> "listening"
                                   [] k = 1 -> @
                                   [] OTHER -> "closed"]
         /\ IF k = 0 THEN Goto(p, "server_accept") ELSE Return(p, -1)
    /\ UNCHANGED <<mainVars, toolVars, exit_code, local_fpga_fd>>
    /\ UNCHANGED <<bufVars, qpVars, client_sockfd, backlog, rx, sent, nrecv, readVars>>

\* an accept that gives up waiting and goes on without a connection
server_accept_timeout(p) ==
    /\ pc[p] = "server_accept"
    /\ \/ /\ backlog' = [backlog EXCEPT ![p] = {}]
          /\ client_sockfd' = [client_sockfd EXCEPT ![p] = "connected"]
          /\ Log(p, <<Ev("accept", TRUE)>>)
          /\ Goto(p, "server_send")
          /\ UNCHANGED server_sockfd
       \/ /\ Log(p, <<Ev("accept", FALSE)>>)
          /\ server_sockfd' = [server_sockfd EXCEPT ![p] = "closed"]
          /\ Return(p, -1)
          /\ UNCHANGED <<backlog, client_sockfd>>
    /\ UNCHANGED <<mainVars, toolVars, exit_code, local_fpga_fd>>
    /\ UNCHANGED <<bufVars, qpVars, rx, sent, nrecv, readVars>>

\* lines 469-477: accept blocks until a connection is there, or fails
server_accept(p) ==
    /\ pc[p] = "server_accept"
    /\ \/ /\ backlog[p] # {}
          /\ backlog' = [backlog EXCEPT ![p] = {}]
          /\ client_sockfd' = [client_sockfd EXCEPT ![p] = "connected"]
          /\ Log(p, <<Ev("accept", TRUE)>>)
          /\ Goto(p, "server_send")
          /\ UNCHANGED server_sockfd
       \/ /\ Log(p, <<Ev("accept", FALSE)>>)
          /\ server_sockfd' = [server_sockfd EXCEPT ![p] = "closed"]
          /\ Return(p, -1)
          /\ UNCHANGED <<backlog, client_sockfd>>
    /\ UNCHANGED <<mainVars, toolVars, exit_code, local_fpga_fd>>
    /\ UNCHANGED <<bufVars, qpVars, rx, sent, nrecv, readVars>>

\* the address run_rdma_server puts into the message, line 480
server_buffer_offset(b) == htonll(b.buffer)

\* server_send that leaves the listening socket open when send fails
server_send_leak(p) ==
    /\ pc[p] = "server_send"
    /\ \E n \in SendResults :
         LET bytes == ObjectBytes(server_buffer_offset(data_buffer[p]))
         IN /\ Log(p, <<Ev("send", n = send_length)>>)
            /\ IF n > 0
               THEN /\ rx' = [rx EXCEPT ![Peer(p)] = @ \o SubSeq(bytes, 1, n)]
                    /\ sent' = [sent EXCEPT ![p] = @ + n]
               ELSE UNCHANGED <<rx, sent>>
            /\ IF n = send_length
               THEN /\ Goto(p, "server_alloc_qp")
                    /\ UNCHANGED <<server_sockfd, client_sockfd>>
               ELSE /\ client_sockfd' = [client_sockfd EXCEPT ![p] = "closed"]
                    /\ UNCHANGED server_sockfd
                    /\ Return(p, -1)
    /\ UNCHANGED <<mainVars, toolVars, exit_code, local_fpga_fd>>
    /\ UNCHANGED <<bufVars, qpVars, backlog, nrecv, readVars>>

\* lines 479-490: send the buffer address
server_send(p) ==
    /\ pc[p] = "server_send"
    /\ \E n \in SendResults :
         LET bytes == ObjectBytes(server_buffer_offset(data_buffer[p]))
         IN /\ Log(p, <<Ev("send", n = send_length)>>)
            /\ IF n > 0
               THEN /\ rx' = [rx EXCEPT ![Peer(p)] = @ \o SubSeq(bytes, 1, n)]
                    /\ sent' = [sent EXCEPT ![p] = @ + n]
               ELSE UNCHANGED <<rx, sent>>
            /\ IF n = send_length
               THEN /\ Goto(p, "server_alloc_qp")
                    /\ UNCHANGED <<server_sockfd, client_sockfd>>
               ELSE /\ client_sockfd' = [client_sockfd EXCEPT ![p] = "closed"]
                    /\ server_sockfd' = [server_sockfd EXCEPT ![p] = "closed"]
                    /\ Return(p, -1)
    /\ UNCHANGED <<mainVars, toolVars, exit_code, local_fpga_fd>>
    /\ UNCHANGED <<bufVars, qpVars, backlog, nrecv, readVars>>

\* a send-side sequence number equal to the receive-side one
sq_psn_same == PSN_BASE
\* the arguments of config_last_rq_psn and config_sq_psn, lines 498-499 and
\* 596-597
last_rq_psn_value == PSN_BASE
sq_psn_value == PSN_BASE + 1

\* allocate_rdma_qp as both role functions call it, lines 493-496 and 591-594
allocate_rdma_qp(p) ==
    [valid |-> TRUE, pd |-> pd[p], local |-> data_buffer[p].dma_addr,
     registered |-> registered[p], depth |-> DEFAULT_QP_DEPTH, r_key |-> R_KEY,
     last_rq_psn |-> -1, sq_psn |-> -1]

\* lines 492-496
server_alloc_qp(p) ==
    /\ pc[p] = "server_alloc_qp"
    /\ qp' = [qp EXCEPT ![p] = allocate_rdma_qp(p)]
    /\ Log(p, <<Ev("allocate_rdma_qp", TRUE)>>)
    /\ Goto(p, "server_rq_psn")
    /\ UNCHANGED <<mainVars, toolVars, exit_code, local_fpga_fd>>
    /\ UNCHANGED <<bufVars, wqe, sockVars, readVars>>

\* line 498
server_rq_psn(p) ==
    /\ pc[p] = "server_rq_psn"
    /\ qp' = [qp EXCEPT ![p].last_rq_psn = last_rq_psn_value]
    /\ Log(p, <<Ev("config_last_rq_psn", TRUE)>>)
    /\ Goto(p, "server_sq_psn")
    /\ UNCHANGED <<mainVars, toolVars, exit_code, local_fpga_fd>>
    /\ UNCHANGED <<bufVars, wqe, sockVars, readVars>>

\* line 499
server_sq_psn(p) ==
    /\ pc[p] = "server_sq_psn"
    /\ qp' = [qp EXCEPT ![p].sq_psn = sq_psn_value]
    /\ Log(p, <<Ev("config_sq_psn", TRUE)>>)
    /\ Goto(p, "server_getchar")
    /\ UNCHANGED <<mainVars, toolVars, exit_code, local_fpga_fd>>
    /\ UNCHANGED <<bufVars, wqe, sockVars, readVars>>

\* a provider that closes only when the reader has sent an acknowledgment
server_getchar_acked(p) ==
    /\ pc[p] = "server_getchar"
    /\ rx[p] # <<>>
    /\ Log(p, <<Ev("getchar", TRUE), Ev("close", TRUE)>>)
    /\ client_sockfd' = [client_sockfd EXCEPT ![p] = "closed"]
    /\ server_sockfd' = [server_sockfd EXCEPT ![p] = "closed"]
    /\ Return(p, 0)
    /\ UNCHANGED <<mainVars, toolVars, exit_code, local_fpga_fd>>
    /\ UNCHANGED <<bufVars, qpVars, backlog, rx, sent, nrecv, readVars>>

\* lines 501-513: getchar returns when the operator presses Enter; then the
\* sockets are closed and the function returns 0
server_getchar(p) ==
    /\ pc[p] = "server_getchar"
    /\ Log(p, <<Ev("getchar", TRUE), Ev("close", TRUE)>>)
    /\ client_sockfd' = [client_sockfd EXCEPT ![p] = "closed"]
    /\ server_sockfd' = [server_sockfd EXCEPT ![p] = "closed"]
    /\ Return(p, 0)
    /\ UNCHANGED <<mainVars, toolVars, exit_code, local_fpga_fd>>
    /\ UNCHANGED <<bufVars, qpVars, backlog, rx, sent, nrecv, readVars>>

(* ---------------------------------------------------------------------- *)
(* run_rdma_client                                                         *)
(* ---------------------------------------------------------------------- *)
\* lines 534-539: open the device file
client_open(p) ==
    /\ pc[p] = "client_open"
    /\ \E ok \in BOOLEAN :
         /\ Log(p, <<Ev("open", ok)>>)
         /\ local_fpga_fd' = [local_fpga_fd EXCEPT ![p] = IF ok THEN "open" ELSE "failed"]
         /\ IF ok THEN Goto(p, "client_resolve") ELSE Return(p, -1)
    /\ UNCHANGED <<mainVars, toolVars, exit_code>>
    /\ UNCHANGED <<bufVars, qpVars, sockVars, readVars>>

\* lines 541-544: get_remote_mac_address
client_resolve(p) ==
    /\ pc[p] = "client_resolve"
    /\ \E ok \in BOOLEAN :
         /\ Log(p, <<Ev("get_remote_mac_address", ok)>>)
         /\ IF ok THEN Goto(p, "client_connect") ELSE Return(p, -1)
    /\ UNCHANGED <<mainVars, toolVars, exit_code, local_fpga_fd>>
    /\ UNCHANGED <<bufVars, qpVars, sockVars, readVars>>

\* client_connect that does not test the result of connect
client_connect_unchecked(p) ==
    /\ pc[p] = "client_connect"
    /\ \/ /\ Log(p, <<Ev("socket", FALSE)>>)
          /\ Return(p, -1)
          /\ UNCHANGED <<client_sockfd, backlog>>
       \/ /\ Log(p, <<Ev("socket", TRUE), Ev("connect", FALSE)>>)
          /\ client_sockfd' = [client_sockfd EXCEPT ![p] = "open"]
          /\ Goto(p, "client_recv")
          /\ UNCHANGED backlog
       \/ /\ server_sockfd[Peer(p)] = "listening"
          /\ pc[Peer(p)] # "exited"
          /\ backlog[Peer(p)] = {}
          /\ Log(p, <<Ev("socket", TRUE), Ev("connect", TRUE)>>)
          /\ client_sockfd' = [client_sockfd EXCEPT ![p] = "connected"]
          /\ backlog' = [backlog EXCEPT ![Peer(p)] = {p}]
          /\ Goto(p, "client_recv")
    /\ UNCHANGED <<mainVars, toolVars, exit_code, local_fpga_fd>>
    /\ UNCHANGED <<bufVars, qpVars, server_sockfd, rx, sent, nrecv, readVars>>

\* lines 546-566: socket and connect.  connect succeeds when the peer listens
\* and its backlog of 1 is free; it may fail at any time
client_connect(p) ==
    /\ pc[p] = "client_connect"
    /\ \/ /\ Log(p, <<Ev("socket", FALSE)>>)
          /\ Return(p, -1)
          /\ UNCHANGED <<client_sockfd, backlog>>
       \/ /\ Log(p, <<Ev("socket", TRUE), Ev("connect", FALSE)>>)
          /\ client_sockfd' = [client_sockfd EXCEPT ![p] = "closed"]
          /\ Return(p, -1)
          /\ UNCHANGED backlog
       \/ /\ server_sockfd[Peer(p)] = "listening"
          /\ pc[Peer(p)] # "exited"
          /\ backlog[Peer(p)] = {}
          /\ Log(p, <<Ev("socket", TRUE), Ev("connect", TRUE)>>)
          /\ client_sockfd' = [client_sockfd EXCEPT ![p] = "connected"]
          /\ backlog' = [backlog EXCEPT ![Peer(p)] = {p}]
          /\ Goto(p, "client_recv")
    /\ UNCHANGED <<mainVars, toolVars, exit_code, local_fpga_fd>>
    /\ UNCHANGED <<bufVars, qpVars, server_sockfd, rx, sent, nrecv, readVars>>

\* what recv() may return when avail bytes have arrived and the peer has
\* (closed) or has not closed the connection
RecvResults(avail, closed) ==
    {-1} \cup (IF avail > 0 THEN {avail} \cup {n \in {recv_length \div 2} : n < avail}
               ELSE IF closed THEN {0} ELSE {})

\* remote_offset taken as received, without the conversion to host order
client_remote_offset_raw(bytes) == ObjectValue(bytes)
\* the address run_rdma_client takes out of the message, lines 569 and 575
client_remote_offset(bytes) == ntohll(ObjectValue(bytes))

\* recv_complete that only looks for an error or an end of stream
recv_complete_any(n) == n > 0
\* the test of recv's return value, line 569
recv_complete(n) == n = recv_length

\* lines 568-578: receive the remote buffer address
client_recv(p) ==
    /\ pc[p] = "client_recv"
    /\ \E n \in RecvResults(Len(rx[p]),
                            client_sockfd[Peer(p)] = "closed" \/ pc[Peer(p)] = "exited") :
         /\ Log(p, <<Ev("recv", recv_complete(n))>>)
         /\ nrecv' = [nrecv EXCEPT ![p] = n]
         /\ rx' = [rx EXCEPT ![p] = IF n > 0 THEN SubSeq(@, n + 1, Len(@)) ELSE @]
         /\ IF recv_complete(n)
            THEN /\ remote_offset' = [remote_offset EXCEPT ![p] =
                                         client_remote_offset(SubSeq(rx[p], 1, n))]
                 /\ Goto(p, "client_alloc")
                 /\ UNCHANGED client_sockfd
            ELSE /\ client_sockfd' = [client_sockfd EXCEPT ![p] = "closed"]
                 /\ Return(p, -1)
                 /\ UNCHANGED remote_offset
    /\ UNCHANGED <<mainVars, toolVars, exit_code, local_fpga_fd>>
    /\ UNCHANGED <<bufVars, qpVars, server_sockfd, backlog, sent>>
    /\ UNCHANGED <<post_ret, post_msg, rd, received_data, errors, printed, lines, reported>>

\* lines 580-586: allocate the receive buffer
client_alloc(p) ==
    /\ pc[p] = "client_alloc"
    /\ \/ /\ Log(p, <<Ev("allocate_rdma_buffer", FALSE)>>)
          /\ client_sockfd' = [client_sockfd EXCEPT ![p] = "closed"]
          /\ Return(p, -1)
          /\ UNCHANGED <<data_buffer, mem>>
       \/ \E fill \in Fills(Words(cfg[p].payload_size)) :
            /\ Log(p, <<Ev("allocate_rdma_buffer", TRUE)>>)
            /\ data_buffer' = [data_buffer EXCEPT ![p] =
                                  NewBuf(cfg[p].payload_size, cfg[p].qp_location)]
            /\ mem' = [mem EXCEPT ![p] = fill]
            /\ Goto(p, "client_qp")
            /\ UNCHANGED client_sockfd
    /\ UNCHANGED <<mainVars, toolVars, exit_code, local_fpga_fd>>
    /\ UNCHANGED <<pd, registered, qpVars, server_sockfd, backlog, rx, sent, nrecv, readVars>>

\* lines 588-597: get the protection domain (its result is not tested),
\* allocate the queue pair, set both sequence numbers
client_qp(p) ==
    /\ pc[p] = "client_qp"
    /\ \E pdok \in BOOLEAN :
         /\ pd' = [pd EXCEPT ![p] = IF pdok THEN "ok" ELSE "null"]
         /\ qp' = [qp EXCEPT ![p] =
                      [allocate_rdma_qp(p) EXCEPT !.pd = IF pdok THEN "ok" ELSE "null",
                                                  !.last_rq_psn = last_rq_psn_value,
                                                  !.sq_psn = sq_psn_value]]
         /\ Log(p, <<Ev("allocate_rdma_pd", pdok), Ev("allocate_rdma_qp", TRUE),
                     Ev("config_last_rq_psn", TRUE), Ev("config_sq_psn", TRUE)>>)
    /\ Goto(p, "client_wqe")
    /\ UNCHANGED <<mainVars, toolVars, exit_code, local_fpga_fd>>
    /\ UNCHANGED <<data_buffer, mem, registered, wqe, sockVars, readVars>>

\* create_a_wqe called with the host pointer of the receive buffer
create_a_wqe_host(p) ==
    [valid |-> TRUE, laddr |-> data_buffer[p].buffer, length |-> cfg[p].payload_size,
     opcode |-> "READ", remote_offset |-> remote_offset[p], r_key |-> R_KEY]
\* create_a_wqe as run_rdma_client calls it, lines 607-609
create_a_wqe(p) ==
    [valid |-> TRUE, laddr |-> data_buffer[p].dma_addr, length |-> cfg[p].payload_size,
     opcode |-> "READ", remote_offset |-> remote_offset[p], r_key |-> R_KEY]

\* lines 599-609
client_wqe(p) ==
    /\ pc[p] = "client_wqe"
    /\ wqe' = [wqe EXCEPT ![p] = create_a_wqe(p)]
    /\ Log(p, <<Ev("create_a_wqe", TRUE)>>)
    /\ Goto(p, "client_post")
    /\ UNCHANGED <<mainVars, toolVars, exit_code, local_fpga_fd>>
    /\ UNCHANGED <<bufVars, qp, sockVars, readVars>>

\* post_failed that knows one error code only
post_failed_minus1(ret) == ret = -1
\* the test of rdma_post_send's return value, line 616
post_failed(ret) == ret < 0

\* lines 611-629: rdma_post_send between the two clock readings; on failure
\* the code is printed
client_post(p) ==
    /\ pc[p] = "client_post"
    /\ \E ret \in {0} \cup PostErrors :
         /\ post_ret' = [post_ret EXCEPT ![p] = ret]
         /\ Log(p, <<Ev("rdma_post_send", ret >= 0)>>)
         /\ IF post_failed(ret)
            THEN /\ client_sockfd' = [client_sockfd EXCEPT ![p] = "closed"]
                 /\ post_msg' = [post_msg EXCEPT ![p] = ret]
                 /\ Return(p, -1)
                 /\ UNCHANGED rd
            ELSE /\ rd' = [rd EXCEPT ![p] = "outstanding"]
                 /\ Goto(p, "client_retrieve")
                 /\ UNCHANGED <<client_sockfd, post_msg>>
    /\ UNCHANGED <<mainVars, toolVars, exit_code, local_fpga_fd>>
    /\ UNCHANGED <<bufVars, qpVars, server_sockfd, backlog, rx, sent, nrecv>>
    /\ UNCHANGED <<remote_offset, received_data, errors, printed, lines, reported>>

\* lines 631-645: for dev_mem copy the buffer out of device memory with
\* read_to_buffer; for host_mem received_data points into the buffer itself
client_retrieve(p) ==
    /\ pc[p] = "client_retrieve"
    /\ IF cfg[p].qp_location = "dev_mem"
       THEN \/ /\ Log(p, <<Ev("read_to_buffer", FALSE)>>)
               /\ client_sockfd' = [client_sockfd EXCEPT ![p] = "closed"]
               /\ Return(p, -1)
               /\ UNCHANGED received_data
            \/ /\ Log(p, <<Ev("read_to_buffer", TRUE)>>)
               /\ received_data' = [received_data EXCEPT ![p] = mem[p]]
               /\ Goto(p, "client_verify")
               /\ UNCHANGED client_sockfd
       ELSE /\ Log(p, <<Ev("host_pointer", TRUE)>>)
            /\ Goto(p, "client_verify")
            /\ UNCHANGED <<received_data, client_sockfd>>
    /\ UNCHANGED <<mainVars, toolVars, exit_code, local_fpga_fd>>
    /\ UNCHANGED <<bufVars, qpVars, server_sockfd, backlog, rx, sent, nrecv>>
    /\ UNCHANGED <<remote_offset, post_ret, post_msg, rd, errors, printed, lines, reported>>

\* the words the verify loop reads through received_data
received_words(p) ==
    IF cfg[p].qp_location = "dev_mem" THEN received_data[p] ELSE mem[p]

\* lines 647-671: regenerate the pattern, count and print the mismatches
client_verify(p) ==
    /\ pc[p] = "client_verify"
    /\ LET gold == golden_data(Words(cfg[p].payload_size))
           e == CountErrors(received_words(p), gold)
       IN /\ errors' = [errors EXCEPT ![p] = e]
          /\ printed' = [printed EXCEPT ![p] = Min(e, MAX_PRINTED)]
          /\ lines' = [lines EXCEPT ![p] = PrintedLines(received_words(p), gold)]
    /\ Log(p, <<Ev("verify", TRUE)>>)
    /\ Goto(p, "client_report")
    /\ UNCHANGED <<mainVars, toolVars, exit_code, local_fpga_fd>>
    /\ UNCHANGED <<bufVars, qpVars, sockVars>>
    /\ UNCHANGED <<remote_offset, post_ret, post_msg, rd, received_data, reported>>

\* the value run_rdma_client returns after verification, line 694
client_result(e) == IF e = 0 THEN 0 ELSE -1

\* lines 673-694: print_test_summary, close the socket, return
client_report(p) ==
    /\ pc[p] = "client_report"
    /\ reported' = [reported EXCEPT ![p] = TRUE]
    /\ Log(p, <<Ev("print_test_summary", TRUE), Ev("close", TRUE)>>)
    /\ client_sockfd' = [client_sockfd EXCEPT ![p] = "closed"]
    /\ Return(p, client_result(errors[p]))
    /\ UNCHANGED <<mainVars, toolVars, exit_code, local_fpga_fd>>
    /\ UNCHANGED <<bufVars, qpVars, server_sockfd, backlog, rx, sent, nrecv>>
    /\ UNCHANGED <<remote_offset, post_ret, post_msg, rd, received_data, errors, printed,
                    lines>>

(* ---------------------------------------------------------------------- *)
(* The NIC                                                                 *)
(* ---------------------------------------------------------------------- *)
\* the n words found at the peer's data buffer
RemoteRegion(q, n) ==
    [i \in 1..n |-> IF i <= Len(mem[q]) THEN mem[q][i] ELSE 0]

\* the posted READ completes some time after rdma_post_send has returned: the
\* NIC stores into the reader's buffer the peer's data buffer, or, when the
\* request did not reach that buffer, other words
nic_read(p) ==
    /\ rd[p] = "outstanding"
    /\ pc[p] \notin {"main_cleanup", "exited"}
    /\ LET n == Len(mem[p])
       IN \E w \in (IF data_buffer[Peer(p)].valid THEN {RemoteRegion(Peer(p), n)} ELSE {})
                   \cup Fills(n) :
            mem' = [mem EXCEPT ![p] = w]
    /\ rd' = [rd EXCEPT ![p] = "complete"]
    /\ UNCHANGED <<pc, result, exit_code, log, mainVars, toolVars, local_fpga_fd>>
    /\ UNCHANGED <<data_buffer, pd, registered, qpVars, sockVars>>
    /\ UNCHANGED <<remote_offset, post_ret, post_msg, received_data, errors, printed, lines,
                    reported>>

(* ---------------------------------------------------------------------- *)
(* Specification                                                           *)
(* ---------------------------------------------------------------------- *)
Next ==
    \E p \in Procs :
        \/ main_parse(p)
        \/ main_setup(p)
        \/ main_cleanup(p)
        \/ server_resolve(p)
        \/ server_alloc(p)
        \/ server_seed(p)
        \/ server_listen(p)
        \/ server_accept(p)
        \/ server_send(p)
        \/ server_alloc_qp(p)
        \/ server_rq_psn(p)
        \/ server_sq_psn(p)
        \/ server_getchar(p)
        \/ client_open(p)
        \/ client_resolve(p)
        \/ client_connect(p)
        \/ client_recv(p)
        \/ client_alloc(p)
        \/ client_qp(p)
        \/ client_wqe(p)
        \/ client_post(p)
        \/ client_retrieve(p)
        \/ client_verify(p)
        \/ client_report(p)
        \/ nic_read(p)

Spec == Init /\ [][Next]_vars

(* ---------------------------------------------------------------------- *)
(* The verifier on every buffer                                            *)
(* ---------------------------------------------------------------------- *)
\* what the reader has called when it reaches the verify loop, every call
\* having succeeded
ReaderLog(loc) ==
    SetupLog(0) \o
    << Ev("open", TRUE), Ev("get_remote_mac_address", TRUE), Ev("socket", TRUE),
       Ev("connect", TRUE), Ev("recv", TRUE), Ev("allocate_rdma_buffer", TRUE),
       Ev("allocate_rdma_pd", TRUE), Ev("allocate_rdma_qp", TRUE),
       Ev("config_last_rq_psn", TRUE), Ev("config_sq_psn", TRUE),
       Ev("create_a_wqe", TRUE), Ev("rdma_post_send", TRUE),
       Ev(IF loc = "dev_mem" THEN "read_to_buffer" ELSE "host_pointer", TRUE) >>

\* what a host_mem provider has called when it waits in getchar
ProviderLog ==
    SetupLog(0) \o
    << Ev("get_remote_mac_address", TRUE), Ev("allocate_rdma_buffer", TRUE),
       Ev("allocate_rdma_pd", TRUE), Ev("rdma_register_memory_region", TRUE),
       Ev("store_pattern", TRUE), Ev("socket", TRUE), Ev("bind", TRUE),
       Ev("listen", TRUE), Ev("accept", TRUE), Ev("send", TRUE),
       Ev("allocate_rdma_qp", TRUE), Ev("config_last_rq_psn", TRUE),
       Ev("config_sq_psn", TRUE) >>

\* buffer sizes in words: the small ones and the default payload and one word
\* more, where the pattern wraps
VerifySizes ==
    (0..VerifyWords) \cup {Words(DEFAULT_PAYLOAD_SIZE), Words(DEFAULT_PAYLOAD_SIZE) + 1}

\* what the READ may have left in a buffer of n words: for the small sizes
\* every choice of right and wrong words, for all sizes the pattern itself
\* and the buffers of one repeated word
VerifyBuffers(n) ==
    Fills(n) \cup {golden_data(n)} \cup
    (IF n <= VerifyWords
     THEN { [i \in 1..n |-> golden_data(n)[i] + b[i]] : b \in [1..n -> {0, 1}] }
     ELSE {})

\* payload sizes of n words: line 655 divides by 4
VerifyPayloads(n) == {4 * n, 4 * n + 2}

\* the reader h1 is about to verify (line 647); the provider h2 waits in
\* getchar (line 502)
VerifyInit ==
    \E n \in VerifySizes, loc \in {"host_mem", "dev_mem"} :
      \E w \in VerifyBuffers(n), size \in VerifyPayloads(n) :
        LET c == [init_config EXCEPT !.src_ip_str = TRUE, !.dst_ip_str = TRUE,
                                     !.payload_size = size]
            R(r, v) == [p \in Procs |-> IF p = "h1" THEN r ELSE v]
        IN /\ pc = R("client_verify", "server_getchar")
           /\ cfg = R([c EXCEPT !.qp_location = loc, !.is_client = 1],
                      [c EXCEPT !.is_server = 1])
           /\ given = R({"c"}, {"s"})
           /\ parse_rc = R(0, 0)
           /\ result = R(0, 0)
           /\ exit_code = R(-1, -1)
           /\ log = R(ReaderLog(loc), ProviderLog)
           /\ rn_dev = R("open", "open")
           /\ setup_fd = R("open", "open")
           /\ local_fpga_fd = R("open", "uninit")
           /\ data_buffer = R(NewBuf(size, loc), NewBuf(size, "host_mem"))
           /\ mem = R(w, test_data(n))
           /\ pd = R("ok", "ok")
           /\ registered = R(FALSE, TRUE)
           /\ qp = [p \in Procs |->
                     [allocate_rdma_qp(p) EXCEPT !.last_rq_psn = last_rq_psn_value,
                                                 !.sq_psn = sq_psn_value]]
           /\ remote_offset = R(HOST_PTR, NULL_ADDR)
           /\ wqe = R(create_a_wqe("h1"), NoWqe)
           /\ server_sockfd = R("none", "listening")
           /\ client_sockfd = R("connected", "connected")
           /\ backlog = R({}, {})
           /\ rx = R(<<>>, <<>>)
           /\ sent = R(0, ADDR_BYTES)
           /\ nrecv = R(ADDR_BYTES, -2)
           /\ post_ret = R(0, 1)
           /\ post_msg = R(0, 0)
           /\ rd = R("complete", "none")
           /\ received_data = R(IF loc = "dev_mem" THEN w ELSE <<>>, <<>>)
           /\ errors = R(-1, -1)
           /\ printed = R(0, 0)
           /\ lines = R(<<>>, <<>>)
           /\ reported = R(FALSE, FALSE)
           /\ ToolIdle

\* the reader verifies, reports and leaves main
VerifyNext ==
    \/ client_verify("h1")
    \/ client_report("h1")
    \/ main_cleanup("h1")

VerifySpec == VerifyInit /\ [][VerifyNext]_vars

(* ---------------------------------------------------------------------- *)
(* The rendezvous message for every address                                *)
(* ---------------------------------------------------------------------- *)
\* the 64-bit addresses the message is checked with: every byte 0, 1 or 255,
\* and the two addresses of an allocated buffer
AddrValues == [1..ADDR_BYTES -> {0, 1, 255}] \cup {HOST_PTR, DMA_ADDR}

\* what the provider has called when accept has returned, and the reader
\* when connect has returned
AcceptedLog ==
    SetupLog(0) \o
    << Ev("get_remote_mac_address", TRUE), Ev("allocate_rdma_buffer", TRUE),
       Ev("allocate_rdma_pd", TRUE), Ev("rdma_register_memory_region", TRUE),
       Ev("store_pattern", TRUE), Ev("socket", TRUE), Ev("bind", TRUE),
       Ev("listen", TRUE), Ev("accept", TRUE) >>
ConnectedLog ==
    SetupLog(0) \o
    << Ev("open", TRUE), Ev("get_remote_mac_address", TRUE), Ev("socket", TRUE),
       Ev("connect", TRUE) >>

\* the provider h2 is about to send the address of its buffer (line 480), the
\* reader h1 is about to receive (line 569); the buffer is at any address
RendezvousInit ==
    \E A \in AddrValues :
        LET size == 4 * MaxWords
            c == [init_config EXCEPT !.src_ip_str = TRUE, !.dst_ip_str = TRUE,
                                     !.payload_size = size]
            R(r, v) == [p \in Procs |-> IF p = "h1" THEN r ELSE v]
        IN /\ pc = R("client_recv", "server_send")
           /\ cfg = R([c EXCEPT !.is_client = 1], [c EXCEPT !.is_server = 1])
           /\ given = R({"c"}, {"s"})
           /\ parse_rc = R(0, 0)
           /\ result = R(0, 0)
           /\ exit_code = R(-1, -1)
           /\ log = R(ConnectedLog, AcceptedLog)
           /\ rn_dev = R("open", "open")
           /\ setup_fd = R("open", "open")
           /\ local_fpga_fd = R("open", "uninit")
           /\ data_buffer = R(NoBuf, [NewBuf(size, "host_mem") EXCEPT !.buffer = A])
           /\ mem = R(<<>>, test_data(Words(size)))
           /\ pd = R("unset", "ok")
           /\ registered = R(FALSE, TRUE)
           /\ qp = R(NoQp, NoQp)
           /\ wqe = R(NoWqe, NoWqe)
           /\ server_sockfd = R("none", "listening")
           /\ client_sockfd = R("connected", "connected")
           /\ backlog = R({}, {})
           /\ rx = R(<<>>, <<>>)
           /\ sent = R(0, 0)
           /\ nrecv = R(-2, -2)
           /\ remote_offset = R(NULL_ADDR, NULL_ADDR)
           /\ post_ret = R(1, 1)
           /\ post_msg = R(0, 0)
           /\ rd = R("none", "none")
           /\ received_data = R(<<>>, <<>>)
           /\ errors = R(-1, -1)
           /\ printed = R(0, 0)
           /\ lines = R(<<>>, <<>>)
           /\ reported = R(FALSE, FALSE)
           /\ ToolIdle

\* the provider sends, the reader receives
RendezvousNext ==
    \/ server_send("h2")
    \/ client_recv("h1")

RendezvousSpec == RendezvousInit /\ [][RendezvousNext]_vars

(* ---------------------------------------------------------------------- *)
(* register_test.c and register_test_arm.c: main                           *)
(* ---------------------------------------------------------------------- *)
\* exit from the tool with the given code
ToolExit(code) ==
    /\ tool_pc' = "exited"
    /\ tool_exit' = code

\* getopt_long returns one more option and main handles it,
\* register_test.c 231-273, register_test_arm.c 337-382
tool_getopt ==
    /\ tool_pc = "main"
    /\ parsed.optind < MaxOpts
    /\ \E o \in ToolOptions :
         LET a == [tool_option(tool, o, parsed) EXCEPT !.optind = @ + 1]
         IN /\ parsed' = a
            /\ CASE a.stop \in {"list", "help"} -> ToolExit(0)
                 [] a.stop = "usage" -> ToolExit(1)
                 [] OTHER -> UNCHANGED <<tool_pc, tool_exit>>
    /\ UNCHANGED <<tool, pcie_resource_fd, axil_base, window, trace, report, tool_result>>
    /\ UNCHANGED sessionVars

\* getopt_long returns -1 and main checks the arguments, register_test.c
\* 276-292, register_test_arm.c 385-401
tool_validate ==
    /\ tool_pc = "main"
    /\ parsed' = [parsed EXCEPT !.stop = "done"]
    /\ IF missing_operation(parsed) \/ missing_address(tool, parsed) \/ missing_value(parsed)
       THEN ToolExit(1)
       ELSE tool_pc' = "open" /\ UNCHANGED tool_exit
    /\ UNCHANGED <<tool, pcie_resource_fd, axil_base, window, trace, report, tool_result>>
    /\ UNCHANGED sessionVars

\* open of the PCIe resource file, register_test.c 295-300,
\* register_test_arm.c 404-409
tool_open ==
    /\ tool_pc = "open"
    /\ \E ok \in BOOLEAN :
         IF ok THEN /\ pcie_resource_fd' = "open"
                    /\ tool_pc' = "mmap"
                    /\ UNCHANGED tool_exit
               ELSE /\ pcie_resource_fd' = "failed"
                    /\ ToolExit(1)
    /\ UNCHANGED <<tool, parsed, axil_base, window, trace, report, tool_result>>
    /\ UNCHANGED sessionVars

\* mmap of the BAR window, register_test.c 307-314, register_test_arm.c 416-424
tool_mmap ==
    /\ tool_pc = "mmap"
    /\ \E ok \in BOOLEAN :
         IF ok THEN /\ axil_base' = "mapped"
                    /\ tool_pc' = "operation"
                    /\ UNCHANGED <<pcie_resource_fd, tool_exit>>
               ELSE /\ axil_base' = "failed"
                    /\ pcie_resource_fd' = "closed"
                    /\ ToolExit(1)
    /\ UNCHANGED <<tool, parsed, window, trace, report, tool_result>>
    /\ UNCHANGED sessionVars

\* an access the mapping does not cover, or a misaligned one, may end the
\* process with a signal
MayFault(e) == IsAccess(e) /\ (~InWindow(e.off) \/ ~Aligned(e.off))
FirstFault(evs) ==
    IF \E i \in 1..Len(evs) : MayFault(evs[i])
    THEN CHOOSE i \in 1..Len(evs) :
            MayFault(evs[i]) /\ \A j \in 1..(i - 1) : ~MayFault(evs[j])
    ELSE 0

\* the requested operation, register_test.c 335-339, register_test_arm.c
\* 442-448: it runs to its end, or the process dies at the first access
\* outside the mapping
tool_operation ==
    /\ tool_pc = "operation"
    /\ LET r == perform(tool, window, parsed)
           k == FirstFault(r.events)
       IN \/ /\ window' = r.window
             /\ trace' = r.events
             /\ report' = r.report
             /\ tool_result' = r.result
             /\ tool_pc' = "cleanup"
          \/ /\ k > 0
             /\ trace' = SubSeq(r.events, 1, k)
             /\ tool_pc' = "killed"
             /\ UNCHANGED <<window, report, tool_result>>
    /\ UNCHANGED <<tool, parsed, pcie_resource_fd, axil_base, tool_exit>>
    /\ UNCHANGED sessionVars

\* munmap, close and return, register_test.c 343-356, register_test_arm.c
\* 452-465
tool_cleanup ==
    /\ tool_pc = "cleanup"
    /\ axil_base' = "unmapped"
    /\ pcie_resource_fd' = "closed"
    /\ ToolExit(tool_result)
    /\ UNCHANGED <<tool, parsed, window, trace, report, tool_result>>
    /\ UNCHANGED sessionVars

\* one run of one of the two tools on one device
RegisterInit ==
    /\ SessionInit
    /\ tool \in Tools
    /\ tool_pc = "main"
    /\ parsed = NoParsed
    /\ pcie_resource_fd = "none"
    /\ axil_base = "none"
    /\ window \in Windows
    /\ trace = <<>>
    /\ report = <<>>
    /\ tool_result = 0
    /\ tool_exit = -1

RegisterNext ==
    \/ tool_getopt
    \/ tool_validate
    \/ tool_open
    \/ tool_mmap
    \/ tool_operation
    \/ tool_cleanup

RegisterSpec == RegisterInit /\ [][RegisterNext]_vars

(* ---------------------------------------------------------------------- *)
(* Properties                                                              *)
(* ---------------------------------------------------------------------- *)
\* the process runs run_rdma_client / run_rdma_server (main, lines 745-749)
Reader(p) == pc[p] # "main" /\ parse_rc[p] = 0 /\ cfg[p].is_server = 0
Provider(p) == pc[p] # "main" /\ parse_rc[p] = 0 /\ cfg[p].is_server = 1

Ended(p) == pc[p] \in {"main_cleanup", "exited"}
Calls(p) == 1..Len(log[p])
Called(p, c) == \E i \in Calls(p) : log[p][i].call = c
Happened(p, e) == \E i \in Calls(p) : log[p][i] = e
Before(p, i, e) == \E j \in 1..(i - 1) : log[p][j] = e
Count(p, c) == Cardinality({ i \in Calls(p) : log[p][i].call = c })
AllOk(p) == \A i \in Calls(p) : log[p][i].ok
LastCall(p) == log[p][Len(log[p])].call
ValidPayload(n) == n >= 4 /\ n % 4 = 0

ProvisionCalls == {"allocate_rdma_buffer", "allocate_rdma_pd", "rdma_register_memory_region",
                   "allocate_rdma_qp", "config_last_rq_psn", "config_sq_psn"}

\* the stage of the reader pipeline a call of run_rdma_client belongs to
ReaderStage(c) ==
    CASE c = "open" -> 1
      [] c = "get_remote_mac_address" -> 2
      [] c \in {"socket", "connect"} -> 3
      [] c = "recv" -> 4
      [] c \in ProvisionCalls -> 5
      [] c = "create_a_wqe" -> 6
      [] c = "rdma_post_send" -> 7
      [] c \in {"read_to_buffer", "host_pointer"} -> 8
      [] c = "verify" -> 9
      [] c = "print_test_summary" -> 10
      [] OTHER -> 0

\* the stage of the provider pipeline a call of the provider session belongs to
ProviderStage(c) ==
    CASE c = "open_setup" -> 1
      [] c = "get_remote_mac_address" -> 2
      [] c \in ProvisionCalls -> 3
      [] c \in {"store_pattern", "write_from_buffer"} -> 4
      [] c \in {"socket", "bind", "listen"} -> 5
      [] c = "accept" -> 6
      [] c = "send" -> 7
      [] c = "getchar" -> 8
      [] c = "close" -> 9
      [] OTHER -> 0

\* C1: in the reader role the stages are entered in the order OPEN_LOCAL_DEVICE,
\* RESOLVE_PEER, CONNECT_RENDEZVOUS, RECEIVE_REMOTE_ADDR, PROVISION_QP, BUILD_WQE,
\* SUBMIT, RETRIEVE, VERIFY, REPORT, and a stage is entered only after every
\* earlier stage was entered and all its calls succeeded
C1_ReaderStageOrder ==
    \A p \in Procs : Reader(p) =>
        \A i \in Calls(p) :
            LET k == ReaderStage(log[p][i].call)
            IN k > 0 =>
                 /\ \A j \in 1..(i - 1) : ReaderStage(log[p][j].call) <= k
                 /\ \A s \in 1..(k - 1) : \E j \in 1..(i - 1) : ReaderStage(log[p][j].call) = s
                 /\ \A j \in 1..(i - 1) :
                        ReaderStage(log[p][j].call) \in 1..(k - 1) => log[p][j].ok

\* C2: in the provider role the stages are entered in the order OPEN_LOCAL_DEVICE,
\* RESOLVE_PEER, PROVISION buffer+QP, SEED_DATA, BIND_LISTEN_RENDEZVOUS, ACCEPT,
\* SEND_LOCAL_ADDR, WAIT_FOR_OPERATOR_SIGNAL, CLOSE; the queue pair is allocated
\* and both sequence numbers are set before the buffer is seeded, before the
\* socket is bound and before the address is sent
C2_ProviderStageOrder ==
    \A p \in Procs : Provider(p) =>
        \A i \in Calls(p) :
            LET k == ProviderStage(log[p][i].call)
            IN k > 0 =>
                 /\ \A j \in 1..(i - 1) : ProviderStage(log[p][j].call) <= k
                 /\ \A s \in 1..(k - 1) : \E j \in 1..(i - 1) : ProviderStage(log[p][j].call) = s
                 /\ k \in {4, 5, 7} =>
                        /\ Before(p, i, Ev("allocate_rdma_qp", TRUE))
                        /\ Before(p, i, Ev("config_last_rq_psn", TRUE))
                        /\ Before(p, i, Ev("config_sq_psn", TRUE))

\* C3: when every external call succeeded, the payload size is valid, the
\* provider has stored the pattern in its buffer and the READ has put exactly
\* that region into what the reader verifies, verification counts 0 mismatches,
\* run_rdma_client returns 0 and the reader exits with code 0
C3_Step(p) ==
    LET q == Peer(p)
    IN /\ ( /\ pc[p] = "client_verify" /\ pc'[p] = "client_report"
            /\ ValidPayload(cfg[p].payload_size)
            /\ AllOk(p) /\ AllOk(q)
            /\ Provider(q) /\ cfg[q].payload_size = cfg[p].payload_size
            /\ Happened(q, Ev("store_pattern", TRUE))
            /\ rd[p] = "complete"
            /\ received_words(p) = mem[q] )
          => errors'[p] = 0
       /\ (pc[p] = "client_report" /\ pc'[p] = "main_cleanup" /\ errors[p] = 0)
          => result'[p] = 0
       /\ (pc[p] = "main_cleanup" /\ pc'[p] = "exited" /\ Reader(p) /\ errors[p] = 0)
          => exit_code'[p] = 0

C3_EndToEnd == [][\A p \in Procs : C3_Step(p)]_vars

C3_Witness ==
    \E p \in Procs :
        /\ Reader(p) /\ pc[p] = "exited" /\ exit_code[p] = 0 /\ errors[p] = 0
        /\ cfg[p].qp_location = "dev_mem" /\ cfg[p].payload_size = 4 * MaxWords
        /\ cfg[Peer(p)].qp_location = "dev_mem"
        /\ AllOk(p) /\ AllOk(Peer(p))
        /\ Happened(Peer(p), Ev("store_pattern", TRUE))
        /\ rd[p] = "complete" /\ received_data[p] = mem[Peer(p)]

\* C4: at most one message of 8 bytes is put on the channel, by the provider and
\* after its accept returned; a send that succeeded put exactly 8 bytes; the
\* reader receives only after its connect returned, and before it provisions
\* anything; the reader sends nothing
C4_OneMessage ==
    \A p \in Procs :
        /\ Count(p, "send") <= 1 /\ Count(p, "recv") <= 1
        /\ sent[p] <= ADDR_BYTES /\ nrecv[p] <= ADDR_BYTES
        /\ Happened(p, Ev("send", TRUE)) => sent[p] = ADDR_BYTES
        /\ \A i \in Calls(p) :
              /\ log[p][i].call = "send" => Provider(p) /\ Before(p, i, Ev("accept", TRUE))
              /\ log[p][i].call = "recv" => Reader(p) /\ Before(p, i, Ev("connect", TRUE))
              /\ (Reader(p) /\ log[p][i].call \in ProvisionCalls)
                    => Before(p, i, Ev("recv", TRUE)) /\ nrecv[p] = ADDR_BYTES
        /\ Reader(p) => sent[p] = 0 /\ rx[Peer(p)] = <<>>
        /\ Len(rx[p]) + (IF nrecv[p] > 0 THEN nrecv[p] ELSE 0) = sent[Peer(p)]

C4_Witness ==
    \E p \in Procs :
        /\ Reader(p) /\ nrecv[p] = ADDR_BYTES /\ qp[p].valid
        /\ Provider(Peer(p)) /\ sent[Peer(p)] = ADDR_BYTES /\ sent[p] = 0

\* C5: the address on the channel, and the remote address of the reader's work
\* request, is the device-bus address of the provider's data buffer
C5_SendsDmaAddr ==
    \A p \in Procs :
        /\ (Provider(Peer(p)) /\ Len(rx[p]) = ADDR_BYTES)
              => rx[p] = data_buffer[Peer(p)].dma_addr
        /\ (Reader(p) /\ wqe[p].valid /\ Provider(Peer(p)))
              => wqe[p].remote_offset = data_buffer[Peer(p)].dma_addr

\* C6: when recv returns anything but 8, the reader returns an error at once,
\* exits with code 1 and has no receive buffer, protection domain, queue pair
\* or work request, and posts nothing
C6_ShortRecvAborts ==
    \A p \in Procs :
        (nrecv[p] # -2 /\ nrecv[p] # ADDR_BYTES) =>
            /\ Ended(p) /\ result[p] = -1
            /\ pc[p] = "exited" => exit_code[p] = 1
            /\ LastCall(p) = "recv"
            /\ ~data_buffer[p].valid /\ pd[p] = "unset"
            /\ ~qp[p].valid /\ ~wqe[p].valid
            /\ post_ret[p] = 1 /\ rd[p] = "none"

C6_Witness ==
    \E p \in Procs :
        /\ Reader(p) /\ nrecv[p] = ADDR_BYTES \div 2
        /\ pc[p] = "exited" /\ exit_code[p] = 1

\* C7: when rdma_post_send returns a negative code, the reader prints that code,
\* returns an error at once, does not retrieve, verify or report, and exits
\* with code 1
C7_PostFailureAborts ==
    \A p \in Procs :
        post_ret[p] < 0 =>
            /\ Ended(p) /\ result[p] = -1
            /\ pc[p] = "exited" => exit_code[p] = 1
            /\ post_msg[p] = post_ret[p]
            /\ LastCall(p) = "rdma_post_send"
            /\ received_data[p] = <<>> /\ errors[p] = -1 /\ printed[p] = 0
            /\ ~reported[p]

C7_Witness ==
    \E p \in Procs :
        /\ Reader(p) /\ post_ret[p] = -2 /\ wqe[p].valid
        /\ pc[p] = "exited" /\ exit_code[p] = 1

\* C8: a payload size of 0 or not a multiple of 4 is rejected by
\* parse_arguments: no call of the session is made for it
C8_PayloadRejected ==
    \A p \in Procs :
        (pc[p] # "main" /\ (cfg[p].payload_size = 0 \/ cfg[p].payload_size % 4 # 0)) =>
            /\ parse_rc[p] # 0
            /\ log[p] = <<>> /\ rn_dev[p] = "null"
            /\ ~data_buffer[p].valid /\ ~qp[p].valid

BothRoles(p) == {"s", "c"} \subseteq given[p]
NoRole(p) == given[p] \cap {"s", "c"} = {}
Rejected(p) ==
    /\ parse_rc[p] = -1 /\ log[p] = <<>>
    /\ pc[p] = "exited" /\ exit_code[p] = 1

\* C9 as claimed: every command line with both role options, and every command
\* line with none, is rejected: parse_arguments returns an error, no stage
\* runs, the exit code is 1
C9_RoleExclusive ==
    \A p \in Procs :
        (pc[p] # "main" /\ (BothRoles(p) \/ NoRole(p))) => Rejected(p)

\* C9 as amended: every command line without the help option that has both
\* role options or none is rejected: parse_arguments returns an error, no
\* stage runs, the exit code is 1
C9_RoleExclusiveNoHelp ==
    \A p \in Procs :
        (pc[p] # "main" /\ "h" \notin given[p] /\ (BothRoles(p) \/ NoRole(p)))
            => Rejected(p)

C9_Witness ==
    \E p \in Procs :
        /\ BothRoles(p) /\ "h" \notin given[p]
        /\ cfg[p].src_ip_str /\ cfg[p].dst_ip_str
        /\ cfg[p].is_server = 1 /\ cfg[p].is_client = 1
        /\ Rejected(p)

\* a call of the session failed, or the command line was refused, or the
\* reader counted mismatches
Failure(p) == parse_rc[p] = -1 \/ ~AllOk(p) \/ errors[p] > 0

\* C10: the exit code is 0 when the session succeeded and 1 after any setup or
\* runtime failure, a mismatch included; help exits with 0 and runs no stage
C10_ExitCodes ==
    \A p \in Procs :
        pc[p] = "exited" =>
            IF parse_rc[p] = 1
            THEN exit_code[p] = 0 /\ log[p] = <<>>
            ELSE exit_code[p] = (IF Failure(p) THEN 1 ELSE 0)

\* the words the verify loop compared and the C indices of those that differ
\* from index mod 256
Retrieved(p, i) == received_words(p)[i + 1]
Mismatching(p) ==
    { i \in 0..(cfg[p].payload_size \div 4 - 1) : Retrieved(p, i) # i % 256 }
Offsets(p) == { lines[p][k].offset : k \in 1..Len(lines[p]) }
Verified(p) == Reader(p) /\ errors[p] # -1

\* C11: the mismatch count is the number of word indices i in [0, P/4) whose
\* retrieved word differs from i mod 256; the lines printed are the
\* min(count, 10) lowest mismatching indices, in ascending order, each with
\* index, expected and actual word; run_rdma_client returns success, and the
\* process exits with 0, exactly when the count is 0
C11_Verifier ==
    \A p \in Procs : Verified(p) =>
        /\ errors[p] = Cardinality(Mismatching(p))
        /\ printed[p] = Len(lines[p])
        /\ Len(lines[p]) = Min(errors[p], 10)
        /\ Offsets(p) \subseteq Mismatching(p)
        /\ \A i \in Mismatching(p) \ Offsets(p) : \A j \in Offsets(p) : j < i
        /\ \A k \in 1..Len(lines[p]) :
              /\ lines[p][k].expected = lines[p][k].offset % 256
              /\ lines[p][k].got = Retrieved(p, lines[p][k].offset)
              /\ k > 1 => lines[p][k - 1].offset < lines[p][k].offset
        /\ reported[p] => (result[p] = 0 <=> errors[p] = 0)
        /\ pc[p] = "exited" => (exit_code[p] = 0 <=> errors[p] = 0)

C11_Witness ==
    \E p \in Procs :
        /\ Verified(p) /\ pc[p] = "exited" /\ exit_code[p] = 1
        /\ errors[p] > 10 /\ Len(lines[p]) = 10
        /\ 0 \notin Mismatching(p) /\ lines[p][10].offset = 10

ZeroBuffer(p) ==
    received_words(p) = [i \in 1..(cfg[p].payload_size \div 4) |-> 0]

\* C12 as claimed: verifying a reader buffer that is entirely zero counts
\* payload_size/4 mismatches and prints the first 10 of them and no more
C12_ZeroBuffer ==
    \A p \in Procs : (Verified(p) /\ ZeroBuffer(p)) =>
        /\ errors[p] = cfg[p].payload_size \div 4
        /\ Len(lines[p]) = Min(cfg[p].payload_size \div 4, 10)

\* C12 as amended: verifying a reader buffer that is entirely zero counts the
\* indices i in [0, P/4) with i mod 256 # 0 (word 0 of the pattern is 0 and
\* matches) and prints the lowest min(count, 10) of them, indices 1, 2, ...,
\* each with expected i mod 256 and actual 0
C12_ZeroBufferCount ==
    \A p \in Procs : (Verified(p) /\ ZeroBuffer(p)) =>
        /\ errors[p] =
              Cardinality({ i \in 0..(cfg[p].payload_size \div 4 - 1) : i % 256 # 0 })
        /\ Len(lines[p]) = Min(errors[p], 10)
        /\ \A k \in 1..Len(lines[p]) :
              lines[p][k] = [offset |-> k, expected |-> k, got |-> 0]

C12_Witness ==
    \E p \in Procs :
        /\ Verified(p) /\ ZeroBuffer(p) /\ pc[p] = "exited"
        /\ cfg[p].payload_size \div 4 = Words(DEFAULT_PAYLOAD_SIZE) + 1
        /\ errors[p] = cfg[p].payload_size \div 4 - 2 /\ Len(lines[p]) = 10

Seeded(q) == Provider(q) /\ Happened(q, Ev("store_pattern", TRUE))

\* C13: for every payload size the words the provider has written into its
\* buffer, by direct stores (host_mem) or through the DMA write (dev_mem), are
\* word[i] = i mod 256 and are the sequence the reader regenerates for that
\* payload size
C13_SamePattern ==
    \A q \in Procs : Seeded(q) =>
        /\ Len(mem[q]) = cfg[q].payload_size \div 4
        /\ \A i \in 0..(cfg[q].payload_size \div 4 - 1) : mem[q][i + 1] = i % 256
        /\ mem[q] = golden_data(Words(cfg[q].payload_size))

C13_Witness ==
    \E q \in Procs :
        /\ Seeded(q) /\ cfg[q].qp_location = "dev_mem"
        /\ cfg[q].payload_size = 4 * (PATTERN_MOD + 1)
        /\ mem[q][PATTERN_MOD] = PATTERN_MOD - 1 /\ mem[q][PATTERN_MOD + 1] = 0

\* C14: the 8 bytes on the channel are the provider's address in network byte
\* order, most significant byte first, and the reader that has received all 8
\* holds exactly the address the provider encoded
C14_RoundTrip ==
    \A p \in Procs :
        LET q == Peer(p)
        IN /\ (Provider(q) /\ Happened(q, Ev("send", TRUE)) /\ Len(rx[p]) = 8)
                 => rx[p] = data_buffer[q].buffer
           /\ (Reader(p) /\ Provider(q) /\ nrecv[p] = 8)
                 => remote_offset[p] = data_buffer[q].buffer

C14_Witness ==
    \E p \in Procs :
        /\ Reader(p) /\ Provider(Peer(p)) /\ nrecv[p] = 8
        /\ remote_offset[p] = <<0, 1, 255, 0, 1, 255, 1, 0>>
        /\ data_buffer[Peer(p)].buffer = remote_offset[p]

\* C15: a session builds at most one work request and submits at most one, the
\* build before the submit; a reader that got as far as BUILD_WQE has built
\* exactly one, and once past SUBMIT has submitted exactly one; the request is
\* a READ into the device-bus address of the reader's buffer, of payload_size
\* bytes, from the address received over the channel, under the fixed key; a
\* provider builds and submits none
C15_OneWorkRequest ==
    \A p \in Procs :
        /\ Count(p, "create_a_wqe") <= 1 /\ Count(p, "rdma_post_send") <= 1
        /\ Provider(p) =>
              /\ ~Called(p, "create_a_wqe") /\ ~Called(p, "rdma_post_send")
              /\ ~wqe[p].valid /\ rd[p] = "none"
        /\ wqe[p].valid <=> Called(p, "create_a_wqe")
        /\ \A i \in Calls(p) :
              log[p][i].call = "rdma_post_send" => Before(p, i, Ev("create_a_wqe", TRUE))
        /\ (Called(p, "create_a_wqe") /\ pc[p] # "client_post")
              => Called(p, "rdma_post_send")
        /\ (Reader(p) /\ errors[p] # -1)
              => Count(p, "create_a_wqe") = 1 /\ Count(p, "rdma_post_send") = 1
        /\ wqe[p].valid =>
              /\ Reader(p) /\ nrecv[p] = 8
              /\ wqe[p].opcode = "READ"
              /\ wqe[p].laddr = data_buffer[p].dma_addr /\ wqe[p].laddr = DMA_ADDR
              /\ wqe[p].length = cfg[p].payload_size
              /\ wqe[p].remote_offset = remote_offset[p]
              /\ Provider(Peer(p)) => wqe[p].remote_offset = data_buffer[Peer(p)].buffer
              /\ wqe[p].r_key = R_KEY

C15_Witness ==
    \E p \in Procs :
        /\ Reader(p) /\ pc[p] = "exited" /\ errors[p] # -1
        /\ wqe[p].valid /\ wqe[p].length = 4 * MaxWords /\ wqe[p].remote_offset = HOST_PTR
        /\ Provider(Peer(p)) /\ ~wqe[Peer(p)].valid /\ Ended(Peer(p))

\* C16: in both roles the receive-side sequence number is set to 0xabc (2748)
\* and the send-side one to 0xabc + 1, two distinct values; each is set at most
\* once per session and exactly once when the queue pair was allocated, the
\* receive-side one as the call right after allocate_rdma_qp and the send-side
\* one right after that, and both before rdma_post_send
C16_SequenceNumbers ==
    \A p \in Procs :
        /\ Count(p, "allocate_rdma_qp") <= 1
        /\ Count(p, "config_last_rq_psn") <= 1 /\ Count(p, "config_sq_psn") <= 1
        /\ \A i \in Calls(p) :
              /\ log[p][i].call = "config_last_rq_psn"
                    => i > 1 /\ log[p][i - 1].call = "allocate_rdma_qp"
              /\ log[p][i].call = "config_sq_psn"
                    => i > 1 /\ log[p][i - 1].call = "config_last_rq_psn"
              /\ log[p][i].call = "rdma_post_send"
                    => /\ Before(p, i, Ev("config_last_rq_psn", TRUE))
                       /\ Before(p, i, Ev("config_sq_psn", TRUE))
        /\ qp[p].valid <=> Called(p, "allocate_rdma_qp")
        /\ IF Called(p, "config_last_rq_psn")
           THEN qp[p].last_rq_psn = 2748 ELSE qp[p].last_rq_psn = -1
        /\ IF Called(p, "config_sq_psn")
           THEN qp[p].sq_psn = 2749 /\ qp[p].sq_psn # qp[p].last_rq_psn
           ELSE qp[p].sq_psn = -1
        /\ (qp[p].valid /\ pc[p] \notin {"server_rq_psn", "server_sq_psn"})
              => Called(p, "config_last_rq_psn") /\ Called(p, "config_sq_psn")

C16_Witness ==
    \E p \in Procs :
        /\ Reader(p) /\ Provider(Peer(p))
        /\ Called(p, "rdma_post_send") /\ Called(Peer(p), "getchar")
        /\ qp[p].last_rq_psn = qp[Peer(p)].last_rq_psn /\ qp[p].sq_psn = qp[Peer(p)].sq_psn
        /\ qp[p].sq_psn = qp[p].last_rq_psn + 1 /\ qp[p].last_rq_psn = 2748

AllocationCalls ==
    {"create_rn_dev", "create_rdma_dev", "allocate_cidb", "allocate_sysbufs",
     "allocate_rdma_pd_setup", "allocate_rdma_buffer", "allocate_rdma_pd",
     "allocate_rdma_qp"}

\* C17: when a device, buffer, protection-domain or queue-pair allocation has
\* failed, in setup or in a role function, the session makes no further call,
\* is over, and the process exits with code 1
C17_AllocationFatal ==
    \A p \in Procs : \A i \in Calls(p) :
        (log[p][i].call \in AllocationCalls /\ ~log[p][i].ok) =>
            /\ i = Len(log[p])
            /\ Ended(p)
            /\ pc[p] = "exited" => exit_code[p] = 1

\* C18: create_rn_dev has succeeded before create_rdma_dev is called; the RDMA
\* engine is created and opened before a buffer is registered; and a queue
\* pair is allocated only over a buffer that was registered before
C18_ProvisioningOrder ==
    \A p \in Procs :
        /\ \A i \in Calls(p) :
              /\ log[p][i].call = "create_rdma_dev"
                    => Before(p, i, Ev("create_rn_dev", TRUE))
              /\ log[p][i].call = "rdma_register_memory_region"
                    => /\ Before(p, i, Ev("create_rdma_dev", TRUE))
                       /\ Before(p, i, Ev("open_rdma_dev", TRUE))
              /\ log[p][i].call = "allocate_rdma_qp"
                    => Before(p, i, Ev("rdma_register_memory_region", TRUE))
        /\ qp[p].valid => qp[p].registered

\* C19: in both roles the data buffer is registered under the fixed access
\* key before the queue pair bound to it is allocated: every queue pair is
\* bound to the device-bus address of a registered data buffer
C19_RegisteredBeforeQp ==
    \A p \in Procs :
        qp[p].valid =>
            /\ data_buffer[p].valid /\ qp[p].local = data_buffer[p].dma_addr
            /\ qp[p].r_key = R_KEY
            /\ registered[p]
            /\ \E i \in Calls(p) :
                  /\ log[p][i] = Ev("allocate_rdma_qp", TRUE)
                  /\ Before(p, i, Ev("allocate_rdma_buffer", TRUE))
                  /\ Before(p, i, Ev("rdma_register_memory_region", TRUE))

\* C20: the protection-domain allocation is called at most once in a session
C20_SinglePd ==
    \A p \in Procs :
        Count(p, "allocate_rdma_pd_setup") + Count(p, "allocate_rdma_pd") <= 1

\* a call of the session that failed
StageFailed(p, i) == ~log[p][i].ok

\* C21: no call of a session is made a second time, and once a stage has
\* failed the session makes no further call, is over, and the process exits
\* with code 1
C21_NoRetry ==
    \A p \in Procs :
        /\ \A i, j \in Calls(p) : i # j => log[p][i].call # log[p][j].call
        /\ \A i \in Calls(p) :
              StageFailed(p, i) =>
                  /\ i = Len(log[p])
                  /\ Ended(p)
                  /\ pc[p] = "exited" => exit_code[p] = 1

ConnectFailed(p) == Happened(p, Ev("connect", FALSE))

\* C22: a connect succeeds only when the provider has reached listen; a reader
\* whose connect failed has called connect once, makes no further call (no
\* recv, no queue pair), returns an error and exits with code 1, whatever the
\* provider does later
C22_ConnectAborts ==
    \A p \in Procs :
        /\ Count(p, "connect") <= 1
        /\ Happened(p, Ev("connect", TRUE)) => Happened(Peer(p), Ev("listen", TRUE))
        /\ ConnectFailed(p) =>
              /\ Reader(p) /\ LastCall(p) = "connect"
              /\ Ended(p) /\ result[p] = -1
              /\ pc[p] = "exited" => exit_code[p] = 1
              /\ client_sockfd[p] = "closed"
              /\ nrecv[p] = -2 /\ ~Called(p, "recv")
              /\ ~qp[p].valid /\ pd[p] = "unset" /\ ~data_buffer[p].valid

\* the reader gave up although the provider came to wait for it afterwards
C22_Witness ==
    \E p \in Procs :
        /\ ConnectFailed(p) /\ pc[p] = "exited" /\ exit_code[p] = 1
        /\ Provider(Peer(p)) /\ pc[Peer(p)] = "server_accept" /\ backlog[Peer(p)] = {}

\* C23: once VERIFY was reached the performance report is emitted, whatever
\* the mismatch count; the report leaves the result and the exit code to the
\* count alone; and a session in which anything else failed has printed no
\* mismatch list and no report
C23_Diagnostics ==
    \A p \in Procs :
        /\ reported[p] <=> Called(p, "print_test_summary")
        /\ (Called(p, "verify") /\ pc[p] # "client_report") => reported[p]
        /\ reported[p] =>
              /\ Called(p, "verify") /\ errors[p] >= 0
              /\ result[p] = 0 <=> errors[p] = 0
              /\ pc[p] = "exited" => (exit_code[p] = 0 <=> errors[p] = 0)
        /\ (\E i \in Calls(p) : ~log[p][i].ok) =>
              /\ ~reported[p] /\ ~Called(p, "verify")
              /\ lines[p] = <<>> /\ printed[p] = 0 /\ errors[p] = -1

\* C24: the reader retrieves and compares its buffer only when the READ it
\* submitted has completed
C24_AwaitsCompletion ==
    \A p \in Procs :
        (Called(p, "read_to_buffer") \/ Called(p, "host_pointer") \/ Called(p, "verify"))
            => rd[p] = "complete"

\* C25: with dev_mem the provider's write_from_buffer and the reader's
\* read_to_buffer are issued on a descriptor the same role function has opened
\* successfully before; with host_mem neither is called and the buffer is
\* written and read through its host pointer
C25_DmaOnOpenedHandle ==
    \A p \in Procs :
        /\ \A i \in Calls(p) :
              log[p][i].call \in {"write_from_buffer", "read_to_buffer"} =>
                  /\ cfg[p].qp_location = "dev_mem"
                  /\ local_fpga_fd[p] = "open"
                  /\ Before(p, i, Ev("open", TRUE))
        /\ cfg[p].qp_location = "host_mem" =>
              /\ ~Called(p, "write_from_buffer") /\ ~Called(p, "read_to_buffer")
              /\ data_buffer[p].valid => data_buffer[p].buffer = HOST_PTR
        /\ cfg[p].qp_location = "dev_mem" => ~Called(p, "host_pointer")

Sent(p) == Provider(p) /\ Happened(p, Ev("send", TRUE))

\* C26: a provider that has sent its address waits in getchar whatever the
\* reader does: the step that takes the operator's signal is enabled in every
\* state in which the provider waits; its sockets are closed only after that
\* signal; it never receives and nothing the reader sent is consumed
C26_OperatorSignalOnly ==
    \A p \in Procs :
        /\ pc[p] = "server_getchar" => Sent(p) /\ ENABLED server_getchar(p)
        /\ Sent(p) =>
              /\ ~Called(p, "recv") /\ nrecv[p] = -2 /\ rx[p] = <<>>
              /\ (server_sockfd[p] = "closed" \/ client_sockfd[p] = "closed" \/ Ended(p))
                    => Happened(p, Ev("getchar", TRUE))
              /\ \A i \in Calls(p) :
                    log[p][i].call = "close" => Before(p, i, Ev("getchar", TRUE))

\* the provider has closed while the reader has not yet submitted its READ
C26_Witness ==
    \E p \in Procs :
        /\ Sent(p) /\ pc[p] = "exited" /\ exit_code[p] = 0
        /\ server_sockfd[p] = "closed" /\ client_sockfd[p] = "closed"
        /\ Reader(Peer(p)) /\ pc[Peer(p)] = "client_wqe" /\ rd[Peer(p)] = "none"

Listening(p) == Provider(p) /\ Happened(p, Ev("listen", TRUE))

\* C27: a listening provider to which no reader has connected can take no step
\* but an error return of accept: unless accept has failed it is still in
\* accept, has sent nothing, has no queue pair and has not terminated; and a
\* provider that has sent its address keeps its sockets open and does not
\* return until the operator's signal has arrived
C27_NoTimeout ==
    \A p \in Procs :
        /\ (pc[p] = "server_accept" /\ backlog[p] = {})
              => ~ENABLED (server_accept(p) /\ pc'[p] # "main_cleanup")
        /\ (Listening(p) /\ ~Happened(Peer(p), Ev("connect", TRUE))
                         /\ ~Happened(p, Ev("accept", FALSE)))
              => /\ pc[p] = "server_accept" /\ exit_code[p] = -1
                 /\ ~Called(p, "send") /\ sent[p] = 0 /\ ~qp[p].valid
                 /\ server_sockfd[p] = "listening"
        /\ (Sent(p) /\ ~Called(p, "getchar"))
              => /\ ~Ended(p)
                 /\ server_sockfd[p] = "listening" /\ client_sockfd[p] = "connected"

\* the provider waits in accept although the reader has come and gone
C27_Witness ==
    \E p \in Procs :
        /\ Listening(p) /\ pc[p] = "server_accept" /\ backlog[p] = {}
        /\ pc[Peer(p)] = "exited" /\ ~Happened(Peer(p), Ev("connect", TRUE))

\* C28: when the reader has submitted its READ, the provider's queue pair is
\* allocated and both its sequence numbers are set
C28_ProviderReadyAtSubmit ==
    \A p \in Procs :
        (Reader(p) /\ Called(p, "rdma_post_send") /\ Provider(Peer(p))) =>
            /\ qp[Peer(p)].valid
            /\ qp[Peer(p)].last_rq_psn = 2748 /\ qp[Peer(p)].sq_psn = 2749

\* C29: when the reader has received the 8-byte address, the provider's data
\* buffer is allocated, registered and holds the whole pattern, and stays so
C29_SeededAtReceive ==
    \A p \in Procs :
        (Reader(p) /\ nrecv[p] = 8 /\ Provider(Peer(p))) =>
            LET q == Peer(p)
            IN /\ data_buffer[q].valid /\ registered[q]
               /\ Called(q, "rdma_register_memory_region")
               /\ mem[q] = [i \in 1..(cfg[q].payload_size \div 4) |-> (i - 1) % 256]

\* C30: when a role function has returned, every socket it created is closed:
\* the reader's client socket, the provider's listening and accepted sockets
C30_SocketsClosed ==
    \A p \in Procs :
        /\ Ended(p) =>
              /\ server_sockfd[p] \in {"none", "closed"}
              /\ client_sockfd[p] \in {"none", "closed"}
        /\ (Ended(p) /\ Happened(p, Ev("socket", TRUE))) =>
              IF Provider(p) THEN server_sockfd[p] = "closed"
                             ELSE client_sockfd[p] = "closed"
        /\ (Ended(p) /\ Happened(p, Ev("accept", TRUE))) => client_sockfd[p] = "closed"
        /\ server_sockfd[p] = "none" <=> ~(Provider(p) /\ Happened(p, Ev("socket", TRUE)))
        /\ client_sockfd[p] = "none" <=>
              ~(Happened(p, Ev("accept", TRUE))
                \/ (Reader(p) /\ Happened(p, Ev("socket", TRUE))))

C30_Witness ==
    \E p \in Procs :
        /\ Provider(p) /\ Happened(p, Ev("send", FALSE)) /\ pc[p] = "exited"
        /\ server_sockfd[p] = "closed" /\ client_sockfd[p] = "closed"
        /\ Reader(Peer(p)) /\ Happened(Peer(p), Ev("recv", FALSE))
        /\ pc[Peer(p)] = "exited" /\ client_sockfd[Peer(p)] = "closed"

(* ---------------------------------------------------------------------- *)
(* Device files and the device handle at exit                              *)
(* ---------------------------------------------------------------------- *)
\* the device handle was created in setup and main has destroyed it
HandleReleased(p) ==
    Happened(p, Ev("create_rn_dev", TRUE)) <=> rn_dev[p] = "destroyed"

\* C31: when a process has exited, no device file it opened (in setup or in
\* the reader role) is still open, and the device handle created in setup has
\* been destroyed
C31_DeviceFilesClosed ==
    \A p \in Procs :
        pc[p] = "exited" =>
            /\ setup_fd[p] # "open"
            /\ local_fpga_fd[p] # "open"
            /\ HandleReleased(p)

(* ---------------------------------------------------------------------- *)
(* The register tools                                                      *)
(* ---------------------------------------------------------------------- *)
\* the loads and stores executed so far, in order
MemoryAccesses == SelectSeq(trace, IsAccess)
\* the process died at its last access
Killed == tool_pc = "killed"
\* the requested operation has run to its end
Performed == tool_pc \in {"cleanup", "exited"} /\ trace # <<>>

\* C32: every load and every store of either tool is at a byte offset whose
\* four bytes lie inside the mapped window, whatever was given with -a
C32_AccessInWindow ==
    \A i \in 1..Len(trace) : IsAccess(trace[i]) => InWindow(trace[i].off)

\* C33: the resource file is opened, the window mapped and a register accessed
\* only when an operation was selected, an address given for a read or a write
\* and a value given for a write; when the option loop ends with one of these
\* missing the tool exits with 1; -l and -h exit with 0 and touch nothing
C33_ArgumentsRequired ==
    /\ (pcie_resource_fd # "none" \/ axil_base # "none" \/ trace # <<>>) =>
          /\ parsed.operation # 0
          /\ parsed.operation \in {1, 2} => parsed.address_set = 1
          /\ parsed.operation = 2 => parsed.value_set = 1
    /\ (/\ parsed.stop = "done"
        /\ \/ parsed.operation = 0
           \/ parsed.operation \in {1, 2} /\ parsed.address_set = 0
           \/ parsed.operation = 2 /\ parsed.value_set = 0) =>
          /\ tool_pc = "exited" /\ tool_exit = 1
          /\ pcie_resource_fd = "none" /\ axil_base = "none" /\ trace = <<>>
    /\ parsed.stop \in {"list", "help"} =>
          /\ tool_pc = "exited" /\ tool_exit = 0
          /\ pcie_resource_fd = "none" /\ axil_base = "none" /\ trace = <<>>

C33_Witness ==
    /\ tool_pc = "exited" /\ tool_exit = 1 /\ parsed.stop = "done"
    /\ parsed.operation = 2 /\ parsed.address_set = 1 /\ parsed.value_set = 0
    /\ pcie_resource_fd = "none" /\ trace = <<>>

\* C34: a write operation that runs to its end stores the given value at the
\* given offset once, before any load, reads the same offset back, prints
\* whether the value read back equals the value written, and the tool exits
\* with 0 in both cases; every store of a tool is followed by a load of the
\* same offset; a read operation stores nothing
C34_WriteReadBack ==
    LET m == MemoryAccesses
    IN /\ (parsed.operation = 2 /\ Performed) =>
             /\ Len(m) >= 2
             /\ m[1] = Store(parsed.address, parsed.value)
             /\ \A i \in 2..Len(m) : m[i].ev = "load" /\ m[i].off = parsed.address
             /\ Len(report) = 1
             /\ report[1].op = "write"
             /\ report[1].address = parsed.address
             /\ report[1].value = parsed.value
             /\ report[1].read_back = m[Len(m)].val
             /\ report[1].match = (parsed.value = m[Len(m)].val)
             /\ tool_pc = "exited" => tool_exit = 0
       /\ \A i \in 1..Len(m) :
             (m[i].ev = "store" /\ ~(Killed /\ i = Len(m))) =>
                 /\ i < Len(m)
                 /\ m[i + 1].ev = "load"
                 /\ m[i + 1].off = m[i].off
       /\ parsed.operation = 1 => \A i \in 1..Len(m) : m[i].ev = "load"

C34_Witness ==
    /\ parsed.operation = 2 /\ tool_pc = "exited" /\ tool_exit = 0
    /\ Len(report) = 1
    /\ ~report[1].match
    /\ report[1].value # report[1].read_back

\* C35: when the string given with -a for a read or a write, or the string
\* given with -v for a write, is not a hexadecimal number, the tool accesses no
\* register
C35_MalformedNoAccess ==
    (\/ /\ parsed.operation \in {1, 2}
        /\ parsed.address_set = 1 /\ ~ValidHex(parsed.address_arg)
     \/ /\ parsed.operation = 2
        /\ parsed.value_set = 1 /\ ~ValidHex(parsed.value_arg)) => trace = <<>>

\* a fenced read starts at position j: rmb, load, rmb
ReadAt(j) ==
    /\ j >= 1 /\ j + 2 <= Len(trace)
    /\ trace[j] = rmb /\ trace[j + 1].ev = "load" /\ trace[j + 2] = rmb
\* a fenced write starts at position j: wmb, store, wmb, load of the same
\* offset, rmb
WriteAt(j) ==
    /\ j >= 1 /\ j + 4 <= Len(trace)
    /\ trace[j] = wmb /\ trace[j + 1].ev = "store" /\ trace[j + 2] = wmb
    /\ trace[j + 3].ev = "load" /\ trace[j + 3].off = trace[j + 1].off
    /\ trace[j + 4] = rmb
\* a fenced read or write starts at position j and the process died at one of
\* its accesses, which is the last event
CutAt(j) ==
    /\ Killed /\ j >= 1
    /\ \/ /\ j + 1 = Len(trace)
          /\ \/ trace[j] = rmb /\ trace[j + 1].ev = "load"
             \/ trace[j] = wmb /\ trace[j + 1].ev = "store"
       \/ /\ j + 3 = Len(trace)
          /\ trace[j] = wmb /\ trace[j + 1].ev = "store" /\ trace[j + 2] = wmb
          /\ trace[j + 3].ev = "load" /\ trace[j + 3].off = trace[j + 1].off
\* the fenced sequences event i belongs to, by their first position
SequencesOf(i) ==
    { j \in (i - 4)..i : \/ ReadAt(j) /\ i <= j + 2
                         \/ WriteAt(j)
                         \/ CutAt(j) }

\* C36: in the ARM tool the loads, stores and barriers executed are a
\* succession of fenced writes (wmb, store, wmb, load of the same offset, rmb)
\* and fenced reads (rmb, load, rmb), and nothing else
C36_FencedAccesses ==
    tool = ARM => \A i \in 1..Len(trace) : Cardinality(SequencesOf(i)) = 1

C36_Witness ==
    /\ tool = ARM /\ tool_pc = "exited" /\ parsed.operation = 2
    /\ Len(report) = 1
    /\ trace = arm_write32_data(parsed.address, parsed.value, report[1].read_back)
               \o arm_read32_data(parsed.address, report[1].read_back)

====
